---- MODULE Spec2Model ----
(***************************************************************************)
(* A model of inboxid: the incremental fetcher (inboxid-fetch), the sync   *)
(* planner (inboxid-sync, compute_sync_actions), the sync itself           *)
(* (inboxid-sync, sync), the flag keys and the thread view of the browser *)
(* (inboxid-browse), the MaildirID conversions, the flag operations of a   *)
(* mail and the message adapter (inboxid-lib) and the index and Maildirs   *)
(* they share.                                                             *)
(*                                                                         *)
(* Conventions.                                                            *)
(*  - A u32 is modelled as a WordBits-bit word, a u64/i64 as a word of     *)
(*    twice that width (TLC's integers are 32 bits wide).                  *)
(*  - The text of `.uid` is a sequence of comma separated tokens; a token  *)
(*    is the number it spells, or Junk when it spells no u32.              *)
(*  - A Maildir id, the text "{uid_validity}_{uid}", is the token sequence *)
(*    <<uid_validity, Sep, uid>>.                                          *)
(*  - The table `mail` is the sequence of its rows in rowid order.         *)
(*  - A flag string is the sequence of its letters.                        *)
(***************************************************************************)
EXTENDS Integers, Sequences, FiniteSets, TLC

\* ------------------------------------------------------------------ bounds

WordBits == 8
MaxUid == 3
MaxRuns == 2
MaxServerSteps == 1
PMaxUid == 1
PMaxRows == 2
PMaxMsgs == 2
TMaxMails == 2
FMaxOps == 3
FMaxLen == 2
GMaxEntries == 2

\* ------------------------------------------------------------- word maths

RECURSIVE Pow2(_)
Pow2(n) == IF n = 0 THEN 1 ELSE 2 * Pow2(n - 1)

Word == Pow2(WordBits)
DWord == Word * Word

Max(a, b) == IF a >= b THEN a ELSE b
Min(a, b) == IF a <= b THEN a ELSE b

SetMax(S) == CHOOSE x \in S : \A y \in S : y <= x

\* the elements of a sequence
Range(seq) == { seq[i] : i \in 1..Len(seq) }

\* store_i64: the u64 bit pattern read as an i64
store_i64(x) == IF x >= DWord \div 2 THEN x - DWord ELSE x

\* load_i64: the i64 bit pattern read as a u64
load_i64(x) == IF x < 0 THEN x + DWord ELSE x

\* ((uid_validity as u64) << 32) | uid as u64
PackUid(uid_validity, uid) == uid_validity * Word + uid

\* gen_id: format!("{}_{}", uid_validity, uid)
Sep == -2
gen_id(uid_validity, uid) == <<uid_validity, Sep, uid>>

\* ------------------------------------------------------------- the `.uid` file

Junk == -1
Absent == -3
NoFile == <<Absent>>

\* x.trim().parse::<u32>().ok(): the number a token spells, if any
ParseU32(tok) == IF tok >= 0 /\ tok < Word THEN <<tok>> ELSE <<>>

\* fields.next() of x.splitn(2, ','): the n-th of at most two fields; the
\* second field is everything after the first comma
SplitField(text, n) ==
    IF n = 1 THEN (IF Len(text) >= 1 THEN <<text[1]>> ELSE <<Junk>>)
    ELSE IF Len(text) = 2 THEN <<text[2]>>
    ELSE IF Len(text) > 2 THEN <<Junk>>
    ELSE <<>>

\* fields.next().map(parse).unwrap_or_default().unwrap_or(0)
FieldOrZero(text, n) ==
    LET f == SplitField(text, n)
    IN  IF f = <<>> THEN 0
        ELSE IF ParseU32(f[1]) = <<>> THEN 0 ELSE ParseU32(f[1])[1]

\* maildir.get_file(".uid").map(..).unwrap_or((0, 0))
ReadUidFile(file) ==
    IF file = NoFile THEN <<0, 0>>
    ELSE <<FieldOrZero(file, 1), FieldOrZero(file, 2)>>

\* format!("{},{}", uid_validity, uid)
FormatUidFile(uid_validity, uid) == <<uid_validity, uid>>

\* ------------------------------------------------------------------ state

VARIABLES
    server,     \* mailbox name -> [validity, next, msgs]: the IMAP server
    maildir,    \* mailbox name -> set of [id, flags, new]: the Maildir entries
    uidFile,    \* the text of INBOX/.uid, or NoFile
    mail,       \* the rows of table `mail`
    mailCols,   \* the number of columns of table `mail`; 0: no such table
    listing,    \* the answer to LIST: a sequence of [name, trash]
    f,          \* fetch_inbox_top: its position and its locals
    h,          \* history of the current fetcher run (not program state)
    p,          \* compute_sync_actions: its position, its locals and its result
    s,          \* sync: its position, its locals and the commands it has sent
    br,         \* the browser: the mail under the cursor and the key pressed
    tv,         \* show_listing's thread view: its position and its locals
    call        \* a call of the MaildirID conversions: its argument and results

vars == <<server, maildir, uidFile, mail, mailCols, listing, f, h, p, s, br, tv, call>>

\* the browser before a key is pressed
BIdle == [pc |-> "idle", mailbox |-> "", id |-> <<>>, key |-> ""]

\* the thread view before show_listing is called
TIdle ==
    [pc |-> "off", mails |-> <<>>, by_id |-> <<>>, nodes |-> <<>>, edges |-> <<>>,
     i |-> 0, roots |-> <<>>, x |-> 0, stack |-> <<>>, printed |-> {},
     tree |-> <<>>, result |-> "none", ret |-> "none", listed |-> <<>>,
     first |-> <<>>]

\* no conversion called
CallIdle == [pc |-> "off"]

Validities == {100, 200}
Uids == 1..MaxUid
INBOX == "INBOX"
\* the Message-ID header of the message of UID u in the fetcher's runs: the
\* first message has none
FetchMids == [u \in 1..(MaxUid + 1) |-> IF u = 1 THEN <<>> ELSE <<"a">>]

\* ------------------------------------------------------------- the server

\* the mailboxes the server can hold in the fetcher's runs: every UID in use
\* is below UIDNEXT and no two messages share a UID
FetchBoxes ==
    UNION { { [validity |-> v, next |-> n,
               msgs |-> { [uid |-> u, mid |-> FetchMids[u], flags |-> {}] : u \in U }]
              : U \in SUBSET (1..(n - 1)) }
            : v \in Validities, n \in 1..(MaxUid + 1) }

\* the answer to UID FETCH lo:* (RFC 3501: `*` is the largest UID in use and
\* the two ends of a range may come in either order)
UidFetchFrom(msgs, lo) ==
    IF msgs = {} THEN {}
    ELSE LET top == SetMax({ m.uid : m \in msgs })
         IN  { m \in msgs : Min(lo, top) <= m.uid /\ m.uid <= Max(lo, top) }

RECURSIVE ByUid(_)
ByUid(msgs) ==
    IF msgs = {} THEN <<>>
    ELSE LET first == CHOOSE m \in msgs : \A o \in msgs : m.uid <= o.uid
         IN  <<first>> \o ByUid(msgs \ {first})

\* ------------------------------------------------------------- get_db

\* CREATE TABLE IF NOT EXISTS mail(mailbox, uid, message_id, flags)
get_db(cols) == IF cols = 0 THEN 4 ELSE cols

\* db.prepare("INSERT INTO mail VALUES (?,?,?)"): compiles only against a
\* table of three columns
FetchInsertValues == 3
PrepareFetchInsert(cols) == cols = FetchInsertValues

\* ------------------------------------------------------------- the fetcher

\* a range chosen from the old watermark itself instead of the UID after it
ChooseRangeOffByOne(uid_validity, uid_next, prev_uid_validity, prev_uid) ==
    IF uid_validity # prev_uid_validity THEN <<1>>
    ELSE IF uid_next # prev_uid % Word THEN <<prev_uid % Word>>
    ELSE <<>>

\* lines 54-64: the UID FETCH range "k:*" as <<k>>, or <<>> for "no new mail"
ChooseRange(uid_validity, uid_next, prev_uid_validity, prev_uid) ==
    IF uid_validity # prev_uid_validity THEN <<1>>
    ELSE IF uid_next # (prev_uid + 1) % Word THEN <<(prev_uid + 1) % Word>>
    ELSE <<>>

\* a largest_uid that starts at zero
InitialLargestZero(prev_uid) == 0

\* line 68: let mut largest_uid = prev_uid
InitialLargest(prev_uid) == prev_uid

\* an existence test that never finds the entry
MaildirExistsNever(entries, id) == FALSE

\* line 78: maildir.exists(&id)
MaildirExists(entries, id) == \E e \in entries : e.id = id

\* line 80: maildir.store_new_with_id(&id, mail_data)
StoreNew(entries, id) == entries \cup { [id |-> id, flags |-> <<>>, new |-> TRUE] }

\* lines 77, 84: params![mailbox, store_i64(uid), message_id]
FetchRow(mailbox, uid_validity, uid, message_id) ==
    <<mailbox, store_i64(PackUid(uid_validity, uid)), message_id>>

\* line 87: cmp::max(uid_next - 1, largest_uid)
NewWatermark(uid_next, largest_uid) == Max(uid_next - 1, largest_uid)

FIdle ==
    [pc |-> "idle", uid_validity |-> 0, uid_next |-> 0, prev_uid_validity |-> 0,
     prev_uid |-> 0, fetch_range |-> <<>>, messages |-> <<>>, largest_uid |-> 0,
     result |-> "none"]

HInit ==
    [run |-> 0, srvSteps |-> 0, srvChanged |-> FALSE, pairOk |-> FALSE,
     ioFault |-> FALSE, issued |-> FALSE, response |-> {}, uidWritten |-> FALSE,
     handled |-> {}, startUid |-> NoFile, startDir |-> {}, startMail |-> <<>>,
     loggedOut |-> FALSE, prevWrote |-> FALSE, storeFailed |-> FALSE]

UidFileMenu ==
    {NoFile, <<>>}
    \cup { <<v>> : v \in Validities }
    \cup { <<v, l>> : v \in Validities \cup {Junk}, l \in (0..MaxUid) \cup {Junk} }
    \cup { <<v, 1, 1>> : v \in Validities }

PIdle ==
    [pc |-> "idle", mailboxes |-> <<>>, remote |-> <<>>, todo |-> <<>>,
     actions |-> <<>>, to_remove |-> <<>>, printed_trash_warning |-> FALSE,
     warnings |-> 0, txBase |-> <<>>, startMail |-> <<>>, touched |-> FALSE,
     result |-> "none"]

\* sync before it starts
SIdle ==
    [pc |-> "idle", mailboxes |-> <<>>, remote |-> <<>>, todo |-> <<>>,
     name |-> [name |-> "", trash |-> FALSE], rows |-> <<>>, row |-> <<>>,
     deleted_some |-> FALSE, printed_trash_warning |-> FALSE,
     keys |-> {}, message_id |-> <<>>, local |-> <<>>,
     target |-> [id |-> [uid_validity |-> 0, uid |-> 0], flags |-> <<>>],
     to_fetch |-> <<>>, fetch |-> <<>>, uid_validity |-> 0,
     to_remove |-> <<>>, stale |-> <<>>,
     log |-> <<>>, result |-> "none",
     startMail |-> <<>>, startDir |-> <<>>, startServer |-> <<>>,
     linked |-> {}, stored |-> {}, replanned |-> FALSE, firstPlan |-> <<>>,
     removed |-> {}, copied |-> {}, refused |-> FALSE, first |-> <<>>]

\* the planner and the sync take no step in the fetcher's runs
FetchFrame == UNCHANGED <<listing, p, s, br, tv, call>>

InitFetch ==
    /\ server \in [{INBOX} -> FetchBoxes]
    /\ maildir = [b \in {INBOX} |-> {}]
    /\ uidFile \in UidFileMenu
    /\ mail = <<>>
    /\ mailCols \in {0, 3, 4}
    /\ listing = <<[name |-> INBOX, trash |-> FALSE]>>
    /\ f = FIdle
    /\ h = HInit
    /\ p = [PIdle EXCEPT !.pc = "off"]
    /\ s = SIdle
    /\ br = BIdle
    /\ tv = TIdle
    /\ call = CallIdle

\* lines 28-36: get_db, connect, capabilities
FetchStart ==
    /\ f.pc \in {"idle", "done"}
    /\ h.run < MaxRuns
    /\ mailCols' = get_db(mailCols)
    /\ f' = [FIdle EXCEPT !.pc = "examine"]
    /\ h' = [h EXCEPT !.run = @ + 1, !.srvChanged = FALSE,
                      !.pairOk = (f.pc = "done" /\ ~h.ioFault /\ ~h.srvChanged),
                      !.ioFault = FALSE, !.issued = FALSE, !.response = {},
                      !.uidWritten = FALSE, !.handled = {}, !.loggedOut = FALSE,
                      !.startUid = uidFile, !.startDir = maildir[INBOX],
                      !.startMail = mail, !.prevWrote = h.uidWritten,
                      !.storeFailed = FALSE]
    /\ UNCHANGED <<server, maildir, uidFile, mail>>
    /\ FetchFrame

\* lines 39-42: EXAMINE
FetchExamine ==
    /\ f.pc = "examine"
    /\ f' = [f EXCEPT !.pc = "readuid",
                      !.uid_validity = server[INBOX].validity,
                      !.uid_next = server[INBOX].next]
    /\ UNCHANGED <<server, maildir, uidFile, mail, mailCols, h>>
    /\ FetchFrame

\* lines 45-53: the watermark of the last run
FetchReadUid ==
    /\ f.pc = "readuid"
    /\ f' = [f EXCEPT !.pc = "choose",
                      !.prev_uid_validity = ReadUidFile(uidFile)[1],
                      !.prev_uid = ReadUidFile(uidFile)[2]]
    /\ UNCHANGED <<server, maildir, uidFile, mail, mailCols, h>>
    /\ FetchFrame

\* lines 54-65: the range, or "no new mail" and logout
FetchChoose ==
    /\ f.pc = "choose"
    /\ LET r == ChooseRange(f.uid_validity, f.uid_next, f.prev_uid_validity, f.prev_uid)
       IN  IF r = <<>>
           THEN /\ f' = [f EXCEPT !.pc = "done", !.result = "ok"]
                /\ h' = [h EXCEPT !.loggedOut = TRUE]
           ELSE /\ f' = [f EXCEPT !.pc = "fetch", !.fetch_range = r]
                /\ h' = h
    /\ UNCHANGED <<server, maildir, uidFile, mail, mailCols>>
    /\ FetchFrame

\* lines 67-68: UID FETCH range RFC822
FetchUidFetch ==
    /\ f.pc = "fetch"
    /\ LET resp == UidFetchFrom(server[INBOX].msgs, f.fetch_range[1])
       IN  /\ f' = [f EXCEPT !.pc = "prepare", !.messages = ByUid(resp),
                             !.largest_uid = InitialLargest(f.prev_uid)]
           /\ h' = [h EXCEPT !.issued = TRUE, !.response = { m.uid : m \in resp }]
    /\ UNCHANGED <<server, maildir, uidFile, mail, mailCols>>
    /\ FetchFrame

\* line 70: the INSERT statement is compiled against the table
FetchPrepare ==
    /\ f.pc = "prepare"
    /\ IF PrepareFetchInsert(mailCols)
       THEN f' = [f EXCEPT !.pc = "loop"]
       ELSE f' = [f EXCEPT !.pc = "done", !.result = "err"]
    /\ UNCHANGED <<server, maildir, uidFile, mail, mailCols, h>>
    /\ FetchFrame

\* lines 72-78: the next message of the response
FetchNext ==
    /\ f.pc = "loop"
    /\ f.messages # <<>>
    /\ LET m == Head(f.messages)
           id == gen_id(f.uid_validity, m.uid)
       IN  IF MaildirExists(maildir[INBOX], id)
           THEN /\ f' = [f EXCEPT !.largest_uid = Max(@, m.uid), !.messages = Tail(@)]
                /\ h' = [h EXCEPT !.handled = @ \cup {m.uid}]
           ELSE /\ f' = [f EXCEPT !.largest_uid = Max(@, m.uid), !.pc = "store"]
                /\ h' = h
    /\ UNCHANGED <<server, maildir, uidFile, mail, mailCols>>
    /\ FetchFrame

\* a failing store that is skipped over instead of ending the run
FetchStoreSwallowed ==
    /\ f.pc = "store"
    /\ LET m == Head(f.messages)
           id == gen_id(f.uid_validity, m.uid)
       IN  \E ok \in BOOLEAN :
             IF ok
             THEN /\ maildir' = [maildir EXCEPT ![INBOX] = StoreNew(@, id)]
                  /\ f' = [f EXCEPT !.pc = "insert"]
                  /\ h' = h
             ELSE /\ maildir' = maildir
                  /\ f' = [f EXCEPT !.pc = "loop", !.messages = Tail(@)]
                  /\ h' = [h EXCEPT !.ioFault = TRUE, !.storeFailed = TRUE]
    /\ UNCHANGED <<server, uidFile, mail, mailCols>>
    /\ FetchFrame

\* lines 79-80: the message goes to Maildir new, or the store fails
FetchStore ==
    /\ f.pc = "store"
    /\ LET m == Head(f.messages)
           id == gen_id(f.uid_validity, m.uid)
       IN  \E ok \in BOOLEAN :
             IF ok
             THEN /\ maildir' = [maildir EXCEPT ![INBOX] = StoreNew(@, id)]
                  /\ f' = [f EXCEPT !.pc = "insert"]
                  /\ h' = h
             ELSE /\ maildir' = maildir
                  /\ f' = [f EXCEPT !.pc = "done", !.result = "err"]
                  /\ h' = [h EXCEPT !.ioFault = TRUE, !.storeFailed = TRUE]
    /\ UNCHANGED <<server, uidFile, mail, mailCols>>
    /\ FetchFrame

\* lines 82-84: the Message-ID header and the index row, or one of them fails
FetchInsert ==
    /\ f.pc = "insert"
    /\ LET m == Head(f.messages)
       IN  \E ok \in BOOLEAN :
             IF ok
             THEN /\ mail' = Append(mail, FetchRow(INBOX, f.uid_validity, m.uid, m.mid))
                  /\ f' = [f EXCEPT !.pc = "loop", !.messages = Tail(@)]
                  /\ h' = [h EXCEPT !.handled = @ \cup {m.uid}]
             ELSE /\ mail' = mail
                  /\ f' = [f EXCEPT !.pc = "done", !.result = "err"]
                  /\ h' = [h EXCEPT !.ioFault = TRUE]
    /\ UNCHANGED <<server, maildir, uidFile, mailCols>>
    /\ FetchFrame

\* lines 87-88: the new watermark, or the write fails
FetchSaveUid ==
    /\ f.pc = "loop"
    /\ f.messages = <<>>
    /\ \E ok \in BOOLEAN :
         IF ok
         THEN /\ uidFile' = FormatUidFile(f.uid_validity,
                                          NewWatermark(f.uid_next, f.largest_uid))
              /\ f' = [f EXCEPT !.pc = "logout"]
              /\ h' = [h EXCEPT !.uidWritten = TRUE]
         ELSE /\ uidFile' = uidFile
              /\ f' = [f EXCEPT !.pc = "done", !.result = "err"]
              /\ h' = [h EXCEPT !.ioFault = TRUE]
    /\ UNCHANGED <<server, maildir, mail, mailCols>>
    /\ FetchFrame

\* lines 91-93
FetchLogout ==
    /\ f.pc = "logout"
    /\ f' = [f EXCEPT !.pc = "done", !.result = "ok"]
    /\ h' = [h EXCEPT !.loggedOut = TRUE]
    /\ UNCHANGED <<server, maildir, uidFile, mail, mailCols>>
    /\ FetchFrame

\* between two runs the server delivers a message to INBOX
ServerDeliver ==
    /\ f.pc \in {"idle", "done"}
    /\ h.srvSteps < MaxServerSteps
    /\ server[INBOX].next <= MaxUid
    /\ server' = [server EXCEPT ![INBOX].next = @ + 1,
                    ![INBOX].msgs = @ \cup { [uid |-> server[INBOX].next,
                                              mid |-> FetchMids[server[INBOX].next],
                                              flags |-> {}] }]
    /\ h' = [h EXCEPT !.srvSteps = @ + 1, !.srvChanged = TRUE]
    /\ UNCHANGED <<maildir, uidFile, mail, mailCols, f>>
    /\ FetchFrame

\* between two runs a message of INBOX is expunged
ServerExpunge ==
    /\ f.pc \in {"idle", "done"}
    /\ h.srvSteps < MaxServerSteps
    /\ \E m \in server[INBOX].msgs :
         server' = [server EXCEPT ![INBOX].msgs = @ \ {m}]
    /\ h' = [h EXCEPT !.srvSteps = @ + 1, !.srvChanged = TRUE]
    /\ UNCHANGED <<maildir, uidFile, mail, mailCols, f>>
    /\ FetchFrame

\* between two runs INBOX is recreated: a new UIDVALIDITY and new UIDs
ServerRevalidate ==
    /\ f.pc \in {"idle", "done"}
    /\ h.srvSteps < MaxServerSteps
    /\ \E box \in FetchBoxes :
         /\ box.validity # server[INBOX].validity
         /\ box.next <= 2
         /\ server' = [server EXCEPT ![INBOX] = box]
    /\ h' = [h EXCEPT !.srvSteps = @ + 1, !.srvChanged = TRUE]
    /\ UNCHANGED <<maildir, uidFile, mail, mailCols, f>>
    /\ FetchFrame

NextFetch ==
    \/ FetchStart
    \/ FetchExamine
    \/ FetchReadUid
    \/ FetchChoose
    \/ FetchUidFetch
    \/ FetchPrepare
    \/ FetchNext
    \/ FetchStore
    \/ FetchInsert
    \/ FetchSaveUid
    \/ FetchLogout
    \/ ServerDeliver
    \/ ServerExpunge
    \/ ServerRevalidate

SpecFetch == InitFetch /\ [][NextFetch]_vars

\* ------------------------------------------------------------- MaildirID

\* MaildirID::new
MaildirIDNew(uid_validity, uid) == [uid_validity |-> uid_validity, uid |-> uid]

\* a conversion that shifts the i64 itself
FromI64Signed(x) == MaildirIDNew(x \div Word, x % Word)

\* impl From<i64> for MaildirID: (x >> 32) as u32, ((x << 32) >> 32) as u32
FromI64(x) == MaildirIDNew(load_i64(x) \div Word, load_i64(x) % Word)

\* MaildirID::to_u64, MaildirID::to_i64
to_u64(id) == PackUid(id.uid_validity, id.uid)
to_i64(id) == store_i64(to_u64(id))

\* fallback_mid: format!("<{}_{}_{}@no-message-id>", mailbox, uid_validity, uid)
fallback_mid(mailbox, id) ==
    <<"<", mailbox, id.uid_validity, id.uid, "@no-message-id>">>

\* message_id.ends_with("@no-message-id>")
EndsWithNoMessageId(message_id) ==
    Len(message_id) > 0 /\ message_id[Len(message_id)] = "@no-message-id>"

\* flags.contains(c) on a flag string, a sequence of letters
HasFlag(flags, c) == \E i \in 1..Len(flags) : flags[i] = c

TRASHED == "T"
DELETE == "E"
SeenFlag == "\\Seen"
DeletedFlag == "\\Deleted"

\* ------------------------------------------------------------- the planner

OtherBox == "Other"
PBoxes == {INBOX, OtherBox}

\* lines 85, 124: the mailboxes named on the command line, or all of them
Processed(mailboxes, mailbox) ==
    Len(mailboxes) = 0 \/ \E i \in 1..Len(mailboxes) : mailboxes[i] = mailbox

\* a remote map that keeps the messages flagged \Deleted
RECURSIVE RemoteMailsKeepDeleted(_, _, _, _)
RemoteMailsKeepDeleted(messages, mailbox, uid_validity, mails) ==
    IF messages = <<>> THEN mails
    ELSE LET m == Head(messages)
             id == [uid_validity |-> uid_validity, uid |-> m.uid]
             message_id == IF m.mid = <<>>
                           THEN <<"<", mailbox, id.uid_validity, id.uid, "@no-message-id>">>
                           ELSE m.mid
             entry == [uid_validity |-> id.uid_validity, uid |-> id.uid, flags |-> m.flags]
         IN  RemoteMailsKeepDeleted(Tail(messages), mailbox, uid_validity,
                [k \in DOMAIN mails \cup {message_id} |->
                    IF k = message_id THEN entry ELSE mails[k]])

\* lines 92-107: the remote map of one mailbox, message by message; a message
\* flagged \Deleted is skipped, a later message replaces an earlier one of
\* the same Message-ID
RECURSIVE RemoteMails(_, _, _, _)
RemoteMails(messages, mailbox, uid_validity, mails) ==
    IF messages = <<>> THEN mails
    ELSE LET m == Head(messages)
             id == MaildirIDNew(uid_validity, m.uid)
             message_id == IF m.mid = <<>> THEN fallback_mid(mailbox, id) ELSE m.mid
             entry == [uid_validity |-> id.uid_validity, uid |-> id.uid, flags |-> m.flags]
         IN  IF DeletedFlag \in m.flags
             THEN RemoteMails(Tail(messages), mailbox, uid_validity, mails)
             ELSE RemoteMails(Tail(messages), mailbox, uid_validity,
                    [k \in DOMAIN mails \cup {message_id} |->
                        IF k = message_id THEN entry ELSE mails[k]])

\* lines 82-109: EXAMINE and UID FETCH 1:* of every processed mailbox
RemoteOf(srv, names, mailboxes) ==
    [b \in { n \in { names[i].name : i \in 1..Len(names) } : Processed(mailboxes, n) } |->
        RemoteMails(ByUid(UidFetchFrom(srv[b].msgs, 1)), b, srv[b].validity, <<>>)]

\* line 119: the first mailbox that carries \Trash, if any
TrashDir(names) ==
    LET t == SelectSeq(names, LAMBDA x : x.trash)
    IN  IF t = <<>> THEN <<>> ELSE <<t[1].name>>

\* "SELECT uid, message_id, flags FROM mail WHERE mailbox = ?"
AllMail(table, mailbox) == SelectSeq(table, LAMBDA r : r[1] = mailbox)

\* "SELECT mailbox, uid, flags FROM mail WHERE message_id = ?"
HaveMail(table, message_id) == SelectSeq(table, LAMBDA r : r[3] = message_id)

\* "DELETE FROM mail WHERE mailbox = ? AND uid = ?"
DeleteMail(table, mailbox, id) ==
    SelectSeq(table, LAMBDA r : ~(r[1] = mailbox /\ r[2] = to_i64(id)))

\* "INSERT INTO mail VALUES (?,?,?,?)"
SaveMail(table, mailbox, id, message_id, flags) ==
    Append(table, <<mailbox, to_i64(id), message_id, flags>>)

\* a trash path that takes a message present on the server for absent
RowKindTrashSwapped(flags, is_trash, has_trash_dir, remote_has) ==
    IF HasFlag(flags, TRASHED) /\ ~is_trash
    THEN IF has_trash_dir
         THEN (IF remote_has THEN "TrashLocal" ELSE "TrashRemote")
         ELSE "Warn"
    ELSE IF HasFlag(flags, DELETE)
    THEN (IF remote_has THEN "DeleteRemote" ELSE "DeleteLocal")
    ELSE "Keep"

\* a delete path that takes a message present on the server for absent
RowKindDeleteSwapped(flags, is_trash, has_trash_dir, remote_has) ==
    IF HasFlag(flags, TRASHED) /\ ~is_trash
    THEN IF has_trash_dir
         THEN (IF remote_has THEN "TrashRemote" ELSE "TrashLocal")
         ELSE "Warn"
    ELSE IF HasFlag(flags, DELETE)
    THEN (IF remote_has THEN "DeleteLocal" ELSE "DeleteRemote")
    ELSE "Keep"

\* lines 135-156: what a row's flags ask for
RowKind(flags, is_trash, has_trash_dir, remote_has) ==
    IF HasFlag(flags, TRASHED) /\ ~is_trash
    THEN IF has_trash_dir
         THEN (IF remote_has THEN "TrashRemote" ELSE "TrashLocal")
         ELSE "Warn"
    ELSE IF HasFlag(flags, DELETE)
    THEN (IF remote_has THEN "DeleteRemote" ELSE "DeleteLocal")
    ELSE "Keep"

IdAction(kind, mailbox, id) == [kind |-> kind, mailbox |-> mailbox, id |-> id, items |-> <<>>]
ListAction(kind, mailbox, items) ==
    [kind |-> kind, mailbox |-> mailbox, id |-> MaildirIDNew(0, 0), items |-> items]

\* lines 132-157: the rows of the mailbox, one after the other
RECURSIVE ScanRows(_, _, _, _, _, _)
ScanRows(rows, st, mailbox, is_trash, has_trash_dir, remote_mails) ==
    IF rows = <<>> THEN st
    ELSE LET row == Head(rows)
             uid == FromI64(row[2])
             kind == RowKind(row[4], is_trash, has_trash_dir, row[3] \in DOMAIN remote_mails)
             next ==
                IF kind \in {"TrashRemote", "TrashLocal", "DeleteRemote", "DeleteLocal"}
                THEN [st EXCEPT !.actions = Append(@, IdAction(kind, mailbox, uid)),
                                !.table = DeleteMail(@, mailbox, uid)]
                ELSE IF kind = "Warn" /\ ~st.printed_trash_warning
                THEN [st EXCEPT !.printed_trash_warning = TRUE, !.warnings = @ + 1]
                ELSE st
         IN  ScanRows(Tail(rows), next, mailbox, is_trash, has_trash_dir, remote_mails)

\* a match on the mailbox alone
ExactRowsAnyUid(local, mailbox, full_uid) ==
    SelectSeq(local, LAMBDA x : x[1] = mailbox)

\* line 166: the rows of `local` at exactly this mailbox and uid
ExactRows(local, mailbox, full_uid) ==
    SelectSeq(local, LAMBDA x : x[1] = mailbox /\ FromI64(x[2]) = full_uid)

\* a fetch that does not spare the trash folder
RemoteKindFetchTrash(local, exact, is_trash) ==
    IF exact # <<>> THEN "Flag"
    ELSE IF local # <<>> THEN "Hardlink"
    ELSE "Fetch"

\* a download of a message another mailbox holds already
RemoteKindFetchKnown(local, exact, is_trash) ==
    IF exact # <<>> THEN "Flag"
    ELSE IF ~is_trash THEN "Fetch"
    ELSE IF local # <<>> THEN "Hardlink"
    ELSE "Skip"

\* lines 166-179: what becomes of a remote message
RemoteKind(local, exact, is_trash) ==
    IF exact # <<>> THEN "Flag"
    ELSE IF local # <<>> THEN "Hardlink"
    ELSE IF ~is_trash THEN "Fetch"
    ELSE "Skip"

\* lines 162-180: the remote messages of the mailbox, in the order the map
\* yields them
RECURSIVE ScanRemote(_, _, _, _, _)
ScanRemote(order, st, mailbox, is_trash, remote_mails) ==
    IF order = <<>> THEN st
    ELSE LET message_id == Head(order)
             entry == remote_mails[message_id]
             full_uid == MaildirIDNew(entry.uid_validity, entry.uid)
             local == HaveMail(st.table, message_id)
             exact == ExactRows(local, mailbox, full_uid)
             kind == RemoteKind(local, exact, is_trash)
             next ==
                IF kind = "Flag"
                THEN [st EXCEPT !.to_flag =
                        Append(@, <<FromI64(exact[1][2]), entry.flags, exact[1][4]>>)]
                ELSE IF kind = "Hardlink"
                THEN [st EXCEPT !.to_hardlink = Append(@, <<full_uid, message_id, entry.flags>>),
                                !.table = SaveMail(@, mailbox, full_uid, message_id, local[1][4])]
                ELSE IF kind = "Fetch"
                THEN [st EXCEPT !.to_fetch = Append(@, full_uid)]
                ELSE st
         IN  ScanRemote(Tail(order), next, mailbox, is_trash, remote_mails)

\* lines 181-189: the three list actions, those that are not empty
ListActions(mailbox, st) ==
    (IF st.to_flag # <<>> THEN <<ListAction("UpdateFlags", mailbox, st.to_flag)>> ELSE <<>>)
    \o (IF st.to_hardlink # <<>> THEN <<ListAction("Hardlink", mailbox, st.to_hardlink)>> ELSE <<>>)
    \o (IF st.to_fetch # <<>> THEN <<ListAction("Fetch", mailbox, st.to_fetch)>> ELSE <<>>)

\* a stale test that does not spare the synthesized ids
RemovedWithSynthesized(table, mailbox, remote_mails) ==
    LET gone == SelectSeq(SelectSeq(table, LAMBDA r : r[1] = mailbox),
                    LAMBDA r : r[3] \notin DOMAIN remote_mails)
    IN  [i \in 1..Len(gone) |->
            <<load_i64(gone[i][2]) \div Word, load_i64(gone[i][2]) % Word, load_i64(gone[i][2])>>]

\* lines 191-201: the rows of the mailbox with no remote message
Removed(table, mailbox, remote_mails) ==
    LET gone == SelectSeq(AllMail(table, mailbox),
                    LAMBDA r : r[3] \notin DOMAIN remote_mails /\ ~EndsWithNoMessageId(r[3]))
    IN  [i \in 1..Len(gone) |->
            <<load_i64(gone[i][2]) \div Word, load_i64(gone[i][2]) % Word, load_i64(gone[i][2])>>]

\* the orders in which a map can yield its keys
Orders(S) ==
    { o \in [1..Cardinality(S) -> S] : \A i, j \in 1..Cardinality(S) : i # j => o[i] # o[j] }

\* a transaction that is committed
TxCommit(table, base) == table

\* the end of `tx` (line 112), never committed: its writes are dropped
TxDrop(table, base) == base

\* lines 113-116: the four statements compile against a table of four columns
PlanStatementValues == 4
PreparePlan(cols) == cols = PlanStatementValues

\* the fetcher and the sync take no step while the planner runs, and the
\* planner reads neither the Maildir nor `.uid`
PlanFrame == UNCHANGED <<server, maildir, uidFile, listing, f, h, s, br, tv, call>>

\* the (mailbox, uid) pairs of the planner's runs: INBOX holds up to PMaxUid
\* messages, the other mailbox one
PKeys == { <<INBOX, u>> : u \in 1..PMaxUid } \cup { <<OtherBox, 1>> }

RowFlags == { <<>>, <<"T">>, <<"E">>, <<"T", "E">> }

\* the rows the index can hold: written under UIDVALIDITY 100, with the
\* Message-ID <a> and any flags or, for a message that has none, with the
\* fallback id and no flag
RowMenuOf(flags) ==
    { <<k[1], to_i64(MaildirIDNew(100, k[2])), <<"a">>, fl>> : k \in PKeys, fl \in flags }
    \cup { <<k[1], to_i64(MaildirIDNew(100, k[2])),
             fallback_mid(k[1], MaildirIDNew(100, k[2])), <<>>>> : k \in PKeys }

RowMenu == RowMenuOf(RowFlags)

\* the messages the server can hold, tagged with their mailbox: with the
\* Message-ID <a> and any flags or, without Message-ID, unflagged
MsgMenu ==
    { <<k[1], [uid |-> k[2], mid |-> <<"a">>, flags |-> fl]>>
      : k \in PKeys, fl \in { {}, {SeenFlag}, {DeletedFlag} } }
    \cup { <<k[1], [uid |-> k[2], mid |-> <<>>, flags |-> {}]>> : k \in PKeys }

\* the sets of at most n rows of the menu, no two at the same (mailbox, uid)
RECURSIVE RowSetsOf(_, _)
RowSetsOf(n, menu) ==
    IF n = 0 THEN {{}}
    ELSE LET less == RowSetsOf(n - 1, menu)
         IN  less \cup UNION { { S \cup {x}
                                  : x \in { y \in menu :
                                              \A z \in S : <<z[1], z[2]>> # <<y[1], y[2]>> } }
                                : S \in less }

RowSets(n) == RowSetsOf(n, RowMenu)

\* the sets of at most n messages of the menu, no two with the same mailbox
\* and UID
RECURSIVE MsgSetsOf(_, _)
MsgSetsOf(n, menu) ==
    IF n = 0 THEN {{}}
    ELSE LET less == MsgSetsOf(n - 1, menu)
         IN  less \cup UNION { { S \cup {x}
                                  : x \in { y \in menu :
                                              \A z \in S : <<z[1], z[2].uid>> # <<y[1], y[2].uid>> } }
                                : S \in less }

MsgSets(n) == MsgSetsOf(n, MsgMenu)

\* a set of rows in rowid order: INBOX first, then by uid
RECURSIVE TableOf(_)
TableOf(rows) ==
    IF rows = {} THEN <<>>
    ELSE LET first == CHOOSE r \in rows : \A o \in rows :
                          \/ (r[1] = INBOX /\ o[1] # INBOX)
                          \/ (r[1] = o[1] /\ r[2] <= o[2])
         IN  <<first>> \o TableOf(rows \ {first})

InitPlan ==
    /\ listing \in { <<[name |-> INBOX, trash |-> FALSE], [name |-> OtherBox, trash |-> t]>>
                      : t \in BOOLEAN }
    /\ \E M \in MsgSets(PMaxMsgs), v \in Validities :
          server = [b \in PBoxes |->
                      [validity |-> IF b = INBOX THEN v ELSE 100,
                       next |-> PMaxUid + 1,
                       msgs |-> { m[2] : m \in { x \in M : x[1] = b } }]]
    /\ \/ mailCols = 4 /\ mail \in { TableOf(R) : R \in RowSets(PMaxRows) }
       \/ mailCols = 0 /\ mail = <<>>
       \/ mailCols = 3 /\ mail \in { <<>>, <<FetchRow(INBOX, 100, 1, <<"a">>)>> }
    /\ maildir = [b \in PBoxes |-> {}]
    /\ uidFile = NoFile
    /\ f = FIdle
    /\ h = HInit
    /\ p \in { [PIdle EXCEPT !.mailboxes = a] : a \in { <<>>, <<INBOX>> } }
    /\ s = SIdle
    /\ br = BIdle
    /\ tv = TIdle
    /\ call = CallIdle

\* lines 65-109: get_db, connect, LIST and the remote listing
PlanStart ==
    /\ p.pc = "idle"
    /\ mailCols' = get_db(mailCols)
    /\ p' = [p EXCEPT !.pc = "begin",
                      !.remote = RemoteOf(server, listing, p.mailboxes),
                      !.startMail = mail]
    /\ UNCHANGED <<mail>>
    /\ PlanFrame

\* lines 112-120: the transaction and its statements
PlanBegin ==
    /\ p.pc = "begin"
    /\ IF PreparePlan(mailCols)
       THEN p' = [p EXCEPT !.pc = "boxes", !.txBase = mail,
                     !.todo = SelectSeq(listing, LAMBDA x : Processed(p.mailboxes, x.name))]
       ELSE p' = [p EXCEPT !.pc = "done", !.result = "err", !.txBase = mail]
    /\ UNCHANGED <<mail, mailCols>>
    /\ PlanFrame

\* lines 121-205: one mailbox, or SELECT fails and the run ends
PlanMailbox ==
    /\ p.pc = "boxes"
    /\ p.todo # <<>>
    /\ LET name == Head(p.todo)
           mailbox == name.name
           remote_mails == p.remote[mailbox]
       IN  \E ok \in BOOLEAN :
             IF ~ok
             THEN /\ mail' = TxDrop(mail, p.txBase)
                  /\ p' = [p EXCEPT !.pc = "done", !.result = "err"]
             ELSE \E order \in Orders(DOMAIN remote_mails) :
                    LET st1 == ScanRows(AllMail(mail, mailbox),
                                  [actions |-> p.actions, table |-> mail,
                                   printed_trash_warning |-> p.printed_trash_warning,
                                   warnings |-> p.warnings],
                                  mailbox, name.trash, TrashDir(listing) # <<>>, remote_mails)
                        st2 == ScanRemote(order,
                                  [table |-> st1.table, to_flag |-> <<>>,
                                   to_hardlink |-> <<>>, to_fetch |-> <<>>],
                                  mailbox, name.trash, remote_mails)
                        removed == Removed(st2.table, mailbox, remote_mails)
                    IN  /\ mail' = st2.table
                        /\ p' = [p EXCEPT
                                   !.todo = Tail(@),
                                   !.actions = st1.actions \o ListActions(mailbox, st2),
                                   !.printed_trash_warning = st1.printed_trash_warning,
                                   !.warnings = st1.warnings,
                                   !.touched = @ \/ st2.table # p.txBase,
                                   !.to_remove = IF removed = <<>> THEN @
                                                 ELSE @ \o <<<<mailbox, removed>>>>]
    /\ UNCHANGED <<mailCols>>
    /\ PlanFrame

\* lines 206-212: RemoveStale, logout, and `tx` goes out of scope
PlanFinish ==
    /\ p.pc = "boxes"
    /\ p.todo = <<>>
    /\ mail' = TxDrop(mail, p.txBase)
    /\ p' = [p EXCEPT !.pc = "done", !.result = "ok",
                      !.actions = Append(@, ListAction("RemoveStale", "", p.to_remove))]
    /\ UNCHANGED <<mailCols>>
    /\ PlanFrame

NextPlan ==
    \/ PlanStart
    \/ PlanBegin
    \/ PlanMailbox
    \/ PlanFinish

SpecPlan == InitPlan /\ [][NextPlan]_vars

\* ------------------------------------------------------------- flag strings

AnsweredFlag == "\\Answered"
FlaggedFlag == "\\Flagged"
UNREAD == "U"
SEEN == "S"
REPLIED == "R"
FLAGGED == "F"

\* f.replace(c, "")
RemoveLetter(flags, c) == SelectSeq(flags, LAMBDA x : x # c)

\* Maildir::normalize_flags: the letters sorted, each once
normalize_flags(flags) ==
    SelectSeq(<<DELETE, FLAGGED, REPLIED, SEEN, TRASHED, UNREAD>>, LAMBDA c : HasFlag(flags, c))

\* a conversion that only ever adds letters
imap_flags_to_maildirAddOnly(flags, imap) ==
    flags \o (IF SeenFlag \in imap THEN <<SEEN>> ELSE <<>>)
          \o (IF AnsweredFlag \in imap THEN <<REPLIED>> ELSE <<>>)
          \o (IF FlaggedFlag \in imap THEN <<FLAGGED>> ELSE <<>>)

\* imap_flags_to_maildir: S, R and F are set as the IMAP flags have them
imap_flags_to_maildir(flags, imap) ==
    LET f1 == IF SeenFlag \in imap THEN Append(flags, SEEN) ELSE RemoveLetter(flags, SEEN)
        f2 == IF AnsweredFlag \in imap THEN Append(f1, REPLIED) ELSE RemoveLetter(f1, REPLIED)
    IN  IF FlaggedFlag \in imap THEN Append(f2, FLAGGED) ELSE RemoveLetter(f2, FLAGGED)

\* ------------------------------------------------------------- Maildir

Gone == ".gone"

\* MaildirID's Display, the text of gen_id
IdName(id) == gen_id(id.uid_validity, id.uid)

\* find_filename: the entries of that id
Found(entries, id_name) == { e \in entries : e.id = id_name }

\* store_new_from_path / store_cur_from_path: a hard link under the name the
\* id and the flags give; it fails when that name exists
LinkInto(entries, id_name, flags, new) ==
    LET e == [id |-> id_name, flags |-> IF new THEN <<>> ELSE normalize_flags(flags),
              new |-> new]
    IN  IF e \in entries THEN <<>> ELSE <<entries \cup {e}>>

\* a copy that reports success and links nothing
maildir_cpLost(dirs, box1, box2, id1, id2, flags, new) ==
    IF Found(dirs[box1], id1) = {} THEN <<>> ELSE <<dirs>>

\* maildir_cp when the mail is found: the Maildirs after the copy, or <<>>
\* when the link fails
maildir_cp(dirs, box1, box2, id1, id2, flags, new) ==
    IF Found(dirs[box1], id1) = {} THEN <<>>
    ELSE LET linked == LinkInto(dirs[box2], id2, flags, new)
         IN  IF linked = <<>> THEN <<>>
             ELSE <<[dirs EXCEPT ![box2] = linked[1]]>>

\* a store that writes no file
StoreCurNothing(entries, id_name, flags) == entries

\* store_cur_with_id_flags
StoreCur(entries, id_name, flags) ==
    entries \cup { [id |-> id_name, flags |-> normalize_flags(flags), new |-> FALSE] }

\* maildir.update_flags(&id, f) for the closure of the final flag pass: U is
\* dropped, S, R and F follow the remote flags; a missing file is passed over
UpdateFileFlags(entries, id_name, imap) ==
    { IF e.id = id_name
      THEN [e EXCEPT !.flags =
              normalize_flags(imap_flags_to_maildir(RemoveLetter(e.flags, UNREAD), imap))]
      ELSE e : e \in entries }

\* ------------------------------------------------------------- the server

\* UID MOVE uid to the mailbox `to`: the message gets the next UID there
uid_mv(srv, from, uid, to) ==
    LET moved == { m \in srv[from].msgs : m.uid = uid }
    IN  IF moved = {} THEN srv
        ELSE LET m == CHOOSE x \in moved : TRUE
             IN  [srv EXCEPT ![from].msgs = @ \ moved,
                             ![to].msgs = @ \cup { [m EXCEPT !.uid = srv[to].next] },
                             ![to].next = @ + 1]

\* UID STORE uid +FLAGS.SILENT (flag) / -FLAGS.SILENT (flag)
uid_store(srv, mailbox, uid, add, flag) ==
    [srv EXCEPT ![mailbox].msgs =
        { IF m.uid = uid
          THEN [m EXCEPT !.flags = IF add THEN @ \cup {flag} ELSE @ \ {flag}]
          ELSE m : m \in @ }]

\* EXPUNGE: the messages flagged \Deleted leave the selected mailbox
expunge(srv, mailbox) ==
    [srv EXCEPT ![mailbox].msgs = { m \in @ : DeletedFlag \notin m.flags }]

\* a command as the log of the session keeps it: the selected mailbox, the
\* UIDs it names and its argument
Cmd(cmd, mailbox, uids, arg) == [cmd |-> cmd, mailbox |-> mailbox, uids |-> uids, arg |-> arg]

\* MaildirID::to_imap: the bare uid
to_imap(id) == id.uid

\* ------------------------------------------------------------- the sync

\* the fetcher and the planner take no step while the sync runs
SyncFrame == UNCHANGED <<uidFile, listing, f, h, p, br, tv, call>>

SyncFail == [s EXCEPT !.pc = "done", !.result = "err"]

\* maildir.delete(&id): the Maildirs it can leave; none when no file has the id
DeleteFile(dirs, mailbox, id_name) ==
    { [dirs EXCEPT ![mailbox] = @ \ {e}] : e \in Found(dirs[mailbox], id_name) }

\* let _ = maildir_cp(maildir, gone, &uid_name, &uid_name, "", true)
CopyToGone(dirs, mailbox, id_name) ==
    LET cp == maildir_cp(dirs, mailbox, Gone, id_name, id_name, <<>>, TRUE)
    IN  IF cp = <<>> THEN dirs ELSE cp[1]

\* the files whose removal went through, and those of them that .gone got
Removal(dirs, mailbox, id_name) ==
    [s EXCEPT !.removed = @ \cup {<<mailbox, id_name>>},
              !.copied = IF CopyToGone(dirs, mailbox, id_name) # dirs
                         THEN @ \cup {<<mailbox, id_name>>} ELSE @]

\* lines 207-216: the flags of the files follow the remote flags
FlagPass(entries, remote_mails) ==
    { IF \E m \in DOMAIN remote_mails :
            e.id = gen_id(remote_mails[m].uid_validity, remote_mails[m].uid)
      THEN LET m == CHOOSE k \in DOMAIN remote_mails :
                        e.id = gen_id(remote_mails[k].uid_validity, remote_mails[k].uid)
           IN  CHOOSE u \in UpdateFileFlags({e}, e.id, remote_mails[m].flags) : TRUE
      ELSE e : e \in entries }

\* lines 232-233: the stale rows in the order the map yields the mailboxes
RECURSIVE StaleItems(_, _)
StaleItems(to_remove, order) ==
    IF order = <<>> THEN <<>>
    ELSE LET entry == to_remove[Head(order)]
         IN  [i \in 1..Len(entry[2]) |-> <<entry[1], entry[2][i]>>]
             \o StaleItems(to_remove, Tail(order))

\* lines 32-91: get_db, connect, LIST, the remote listing and the statements
SyncStart ==
    /\ s.pc = "idle"
    /\ p.pc = "done" /\ p.result = "ok"
    /\ mailCols' = get_db(mailCols)
    /\ IF PreparePlan(get_db(mailCols))
       THEN s' = [s EXCEPT !.pc = "select", !.mailboxes = p.mailboxes,
                     !.remote = RemoteOf(server, listing, p.mailboxes),
                     !.todo = SelectSeq(listing, LAMBDA x : Processed(p.mailboxes, x.name)),
                     !.startMail = mail, !.startDir = maildir, !.startServer = server,
                     !.firstPlan = p.actions]
       ELSE s' = [SyncFail EXCEPT !.startMail = mail, !.startDir = maildir,
                                  !.startServer = server]
    /\ UNCHANGED <<server, maildir, mail>>
    /\ SyncFrame

\* lines 92-103: the next mailbox is selected and its rows are queried; after
\* the last one the stale rows are taken up
SyncSelect ==
    /\ s.pc = "select"
    /\ IF s.todo = <<>>
       THEN \E order \in Orders(DOMAIN s.to_remove) :
              s' = [s EXCEPT !.pc = "stale", !.stale = StaleItems(s.to_remove, order)]
       ELSE \E ok \in BOOLEAN :
              IF ~ok THEN s' = [SyncFail EXCEPT !.refused = TRUE]
              ELSE s' = [s EXCEPT !.pc = "rows", !.name = Head(s.todo), !.todo = Tail(@),
                            !.rows = AllMail(mail, Head(s.todo).name),
                            !.deleted_some = FALSE, !.to_fetch = <<>>]
    /\ UNCHANGED <<server, maildir, mail, mailCols>>
    /\ SyncFrame

\* lines 104-107, 120-124, 136: the next row and what its flags ask for
SyncRow ==
    /\ s.pc = "rows"
    /\ IF s.rows = <<>>
       THEN s' = [s EXCEPT !.pc = IF s.deleted_some THEN "expunge" ELSE "remote",
                     !.keys = DOMAIN s.remote[s.name.name]]
       ELSE LET row == Head(s.rows)
                kind == RowKind(row[4], s.name.trash, TrashDir(listing) # <<>>,
                                row[3] \in DOMAIN s.remote[s.name.name])
            IN  s' = [s EXCEPT !.rows = Tail(@), !.row = row,
                         !.pc = IF kind \in {"TrashRemote", "TrashLocal"} THEN "trash_mv"
                                ELSE IF kind \in {"DeleteRemote", "DeleteLocal"}
                                THEN "del_store" ELSE "rows",
                         !.printed_trash_warning = @ \/ kind = "Warn"]
    /\ UNCHANGED <<server, maildir, mail, mailCols>>
    /\ SyncFrame

\* lines 108-114: UID MOVE to the trash folder when the message is listed
SyncTrashMove ==
    /\ s.pc = "trash_mv"
    /\ LET mailbox == s.name.name
           uid == FromI64(s.row[2])
       IN  IF s.row[3] \in DOMAIN s.remote[mailbox]
           THEN /\ server' = uid_mv(server, mailbox, to_imap(uid), TrashDir(listing)[1])
                /\ s' = [s EXCEPT !.pc = "trash_file",
                            !.log = Append(@, Cmd("MOVE", mailbox, <<to_imap(uid)>>,
                                                  TrashDir(listing)[1]))]
           ELSE /\ server' = server
                /\ s' = [s EXCEPT !.pc = "trash_file"]
    /\ UNCHANGED <<maildir, mail, mailCols>>
    /\ SyncFrame

\* lines 115-118: the file is linked into .gone, if it can be, and deleted
SyncTrashFile ==
    /\ s.pc = "trash_file"
    /\ LET mailbox == s.name.name
           uid_name == IdName(FromI64(s.row[2]))
           gone == CopyToGone(maildir, mailbox, uid_name)
       IN  IF DeleteFile(gone, mailbox, uid_name) = {}
           THEN maildir' = gone /\ s' = SyncFail
           ELSE /\ maildir' \in DeleteFile(gone, mailbox, uid_name)
                /\ s' = [Removal(maildir, mailbox, uid_name) EXCEPT !.pc = "trash_row"]
    /\ UNCHANGED <<server, mail, mailCols>>
    /\ SyncFrame

\* line 119: the row of the trashed mail is deleted
SyncTrashRow ==
    /\ s.pc = "trash_row"
    /\ mail' = DeleteMail(mail, s.name.name, FromI64(s.row[2]))
    /\ s' = [s EXCEPT !.pc = "rows"]
    /\ UNCHANGED <<server, maildir, mailCols>>
    /\ SyncFrame

\* lines 125-131: UID STORE +FLAGS.SILENT (\Deleted) when the message is
\* listed; the message leaves the remote map
SyncDeleteStore ==
    /\ s.pc = "del_store"
    /\ LET mailbox == s.name.name
           uid == FromI64(s.row[2])
           mid == s.row[3]
           rest == [k \in DOMAIN s.remote[mailbox] \ {mid} |-> s.remote[mailbox][k]]
       IN  IF mid \in DOMAIN s.remote[mailbox]
           THEN /\ server' = uid_store(server, mailbox, to_imap(uid), TRUE, DeletedFlag)
                /\ s' = [s EXCEPT !.pc = "del_row", !.remote[mailbox] = rest,
                            !.log = Append(@, Cmd("STORE", mailbox, <<to_imap(uid)>>,
                                                  "+\\Deleted"))]
           ELSE /\ server' = server
                /\ s' = [s EXCEPT !.pc = "del_row", !.remote[mailbox] = rest]
    /\ UNCHANGED <<maildir, mail, mailCols>>
    /\ SyncFrame

\* line 132: the row of the deleted mail is deleted
SyncDeleteRow ==
    /\ s.pc = "del_row"
    /\ mail' = DeleteMail(mail, s.name.name, FromI64(s.row[2]))
    /\ s' = [s EXCEPT !.pc = "del_file"]
    /\ UNCHANGED <<server, maildir, mailCols>>
    /\ SyncFrame

\* lines 133-134: the file of the deleted mail is deleted
SyncDeleteFile ==
    /\ s.pc = "del_file"
    /\ LET mailbox == s.name.name
           uid_name == IdName(FromI64(s.row[2]))
       IN  IF DeleteFile(maildir, mailbox, uid_name) = {}
           THEN maildir' = maildir /\ s' = SyncFail
           ELSE /\ maildir' \in DeleteFile(maildir, mailbox, uid_name)
                /\ s' = [s EXCEPT !.pc = "rows", !.deleted_some = TRUE]
    /\ UNCHANGED <<server, mail, mailCols>>
    /\ SyncFrame

\* lines 137-139: EXPUNGE after the rows of a mailbox in which some were deleted
SyncExpunge ==
    /\ s.pc = "expunge"
    /\ server' = expunge(server, s.name.name)
    /\ s' = [s EXCEPT !.pc = "remote", !.keys = DOMAIN s.remote[s.name.name],
                !.log = Append(@, Cmd("EXPUNGE", s.name.name, <<>>, ""))]
    /\ UNCHANGED <<maildir, mail, mailCols>>
    /\ SyncFrame

\* a macro that only ever adds \Seen
SeenStoreAddOnly(flags, remote_flags) ==
    IF HasFlag(flags, SEEN) /\ SeenFlag \notin remote_flags THEN <<TRUE>> ELSE <<>>

\* the update_flags! macro (lines 145-160): <<add, flag>> of the UID STORE it
\* sends, or <<>> when it sends none
SeenStore(flags, remote_flags) ==
    LET local_s == HasFlag(flags, SEEN)
        local_u == HasFlag(flags, UNREAD)
        remote_s == SeenFlag \in remote_flags
    IN  IF local_s /\ ~remote_s THEN <<TRUE>>
        ELSE IF local_u /\ remote_s THEN <<FALSE>>
        ELSE <<>>

\* lines 142-144, 161-180: the next message of the remote map
SyncRemote ==
    /\ s.pc = "remote"
    /\ IF s.keys = {}
       THEN s' = [s EXCEPT !.pc = IF s.to_fetch # <<>> THEN "fetch" ELSE "flags"]
       ELSE \E message_id \in s.keys :
              LET mailbox == s.name.name
                  entry == s.remote[mailbox][message_id]
                  full_uid == MaildirIDNew(entry.uid_validity, entry.uid)
                  local == HaveMail(mail, message_id)
                  exact == ExactRows(local, mailbox, full_uid)
                  kind == RemoteKind(local, exact, s.name.trash)
                  next == [s EXCEPT !.keys = @ \ {message_id}, !.message_id = message_id]
              IN  s' = IF kind = "Flag"
                       THEN [next EXCEPT !.pc = "seen",
                                !.target = [id |-> FromI64(exact[1][2]), flags |-> exact[1][4]]]
                       ELSE IF kind = "Hardlink"
                       THEN [next EXCEPT !.pc = "link_cp", !.local = local[1]]
                       ELSE IF kind = "Fetch"
                       THEN [next EXCEPT !.to_fetch = Append(@, entry.uid)]
                       ELSE next
    /\ UNCHANGED <<server, maildir, mail, mailCols>>
    /\ SyncFrame

\* lines 145-160, 162, 176: the Seen flag of the server follows the local
\* flags, and the remote flags in memory follow the server
SyncSeen ==
    /\ s.pc = "seen"
    /\ LET mailbox == s.name.name
           store == SeenStore(s.target.flags, s.remote[mailbox][s.message_id].flags)
       IN  IF store = <<>>
           THEN server' = server /\ s' = [s EXCEPT !.pc = "remote"]
           ELSE /\ server' = uid_store(server, mailbox, to_imap(s.target.id), store[1], SeenFlag)
                /\ s' = [s EXCEPT !.pc = "remote",
                            !.remote[mailbox][s.message_id].flags =
                                IF store[1] THEN @ \cup {SeenFlag} ELSE @ \ {SeenFlag},
                            !.log = Append(@, Cmd("STORE", mailbox, <<to_imap(s.target.id)>>,
                                                  IF store[1] THEN "+\\Seen" ELSE "-\\Seen"))]
    /\ UNCHANGED <<maildir, mail, mailCols>>
    /\ SyncFrame

\* lines 165-174: the file of the first row with the Message-ID is linked
\* into the mailbox under the new id
SyncLinkCp ==
    /\ s.pc = "link_cp"
    /\ LET mailbox == s.name.name
           entry == s.remote[mailbox][s.message_id]
           new_uid == MaildirIDNew(entry.uid_validity, entry.uid)
           cp == maildir_cp(maildir, s.local[1], mailbox, IdName(FromI64(s.local[2])),
                            IdName(new_uid), s.local[4], FALSE)
       IN  IF cp = <<>>
           THEN maildir' = maildir /\ s' = SyncFail
           ELSE maildir' = cp[1] /\ s' = [s EXCEPT !.pc = "link_row"]
    /\ UNCHANGED <<server, mail, mailCols>>
    /\ SyncFrame

\* line 175: the row of the linked mail is inserted
SyncLinkRow ==
    /\ s.pc = "link_row"
    /\ LET mailbox == s.name.name
           entry == s.remote[mailbox][s.message_id]
           new_uid == MaildirIDNew(entry.uid_validity, entry.uid)
       IN  /\ mail' = SaveMail(mail, mailbox, new_uid, s.message_id, s.local[4])
           /\ s' = [s EXCEPT !.pc = "seen",
                       !.target = [id |-> new_uid, flags |-> s.local[4]],
                       !.linked = @ \cup {<<mailbox, new_uid>>}]
    /\ UNCHANGED <<server, maildir, mailCols>>
    /\ SyncFrame

\* lines 182-188: EXAMINE and UID FETCH of the messages to fetch
SyncFetch ==
    /\ s.pc = "fetch"
    /\ LET mailbox == s.name.name
       IN  s' = [s EXCEPT !.pc = "fetch_loop",
                    !.uid_validity = server[mailbox].validity,
                    !.fetch = ByUid({ m \in server[mailbox].msgs : m.uid \in Range(s.to_fetch) }),
                    !.log = Append(@, Cmd("FETCH", mailbox, s.to_fetch, "RFC822"))]
    /\ UNCHANGED <<server, maildir, mail, mailCols>>
    /\ SyncFrame

\* lines 190-197, 202-204: the next fetched message is stored, unless a file
\* of its id exists
SyncFetchStore ==
    /\ s.pc = "fetch_loop"
    /\ IF s.fetch = <<>>
       THEN maildir' = maildir /\ s' = [s EXCEPT !.pc = "flags"]
       ELSE LET mailbox == s.name.name
                m == Head(s.fetch)
                id_name == IdName(MaildirIDNew(s.uid_validity, m.uid))
            IN  IF MaildirExists(maildir[mailbox], id_name)
                THEN maildir' = maildir /\ s' = [s EXCEPT !.fetch = Tail(@)]
                ELSE /\ maildir' = [maildir EXCEPT ![mailbox] =
                                      StoreCur(@, id_name, imap_flags_to_maildir(<<>>, m.flags))]
                     /\ s' = [s EXCEPT !.pc = "fetch_row"]
    /\ UNCHANGED <<server, mail, mailCols>>
    /\ SyncFrame

\* lines 199-201: the row of the fetched message is inserted
SyncFetchRow ==
    /\ s.pc = "fetch_row"
    /\ LET mailbox == s.name.name
           m == Head(s.fetch)
           id == MaildirIDNew(s.uid_validity, m.uid)
           message_id == IF m.mid = <<>> THEN fallback_mid(mailbox, id) ELSE m.mid
       IN  /\ mail' = SaveMail(mail, mailbox, id, message_id,
                               imap_flags_to_maildir(<<>>, m.flags))
           /\ s' = [s EXCEPT !.pc = "fetch_loop", !.fetch = Tail(@),
                       !.stored = @ \cup {<<mailbox, id>>}]
    /\ UNCHANGED <<server, maildir, mailCols>>
    /\ SyncFrame

\* lines 207-230: the final flag pass over the files of the mailbox, and the
\* rows with no remote message are noted
SyncFlagPass ==
    /\ s.pc = "flags"
    /\ LET mailbox == s.name.name
           removed == Removed(mail, mailbox, s.remote[mailbox])
       IN  /\ maildir' = [maildir EXCEPT ![mailbox] = FlagPass(@, s.remote[mailbox])]
           /\ s' = [s EXCEPT !.pc = "select",
                       !.to_remove = IF removed = <<>> THEN @
                                     ELSE @ \o <<<<mailbox, removed>>>>]
    /\ UNCHANGED <<server, mail, mailCols>>
    /\ SyncFrame

\* lines 232-240: the file of the next stale row is linked into .gone, if it
\* can be, and deleted
SyncStaleFile ==
    /\ s.pc = "stale"
    /\ IF s.stale = <<>>
       THEN maildir' = maildir /\ s' = [s EXCEPT !.pc = "logout"]
       ELSE LET mailbox == Head(s.stale)[1]
                uid_name == gen_id(Head(s.stale)[2][1], Head(s.stale)[2][2])
                gone == CopyToGone(maildir, mailbox, uid_name)
            IN  IF DeleteFile(gone, mailbox, uid_name) = {}
                THEN maildir' = gone /\ s' = SyncFail
                ELSE /\ maildir' \in DeleteFile(gone, mailbox, uid_name)
                     /\ s' = [Removal(maildir, mailbox, uid_name) EXCEPT !.pc = "stale_row"]
    /\ UNCHANGED <<server, mail, mailCols>>
    /\ SyncFrame

\* line 241: the stale row is deleted
SyncStaleRow ==
    /\ s.pc = "stale_row"
    /\ mail' = SelectSeq(mail, LAMBDA r : ~(r[1] = Head(s.stale)[1]
                                           /\ r[2] = store_i64(Head(s.stale)[2][3])))
    /\ s' = [s EXCEPT !.pc = "stale", !.stale = Tail(@)]
    /\ UNCHANGED <<server, maildir, mailCols>>
    /\ SyncFrame

\* lines 245-248: logout
SyncLogout ==
    /\ s.pc = "logout"
    /\ s' = [s EXCEPT !.pc = "done", !.result = "ok"]
    /\ UNCHANGED <<server, maildir, mail, mailCols>>
    /\ SyncFrame

\* the planner is run again after a sync that succeeded
SyncReplan ==
    /\ s.pc = "done" /\ s.result = "ok"
    /\ ~s.replanned
    /\ p.pc = "done"
    /\ p' = [PIdle EXCEPT !.mailboxes = p.mailboxes]
    /\ s' = [s EXCEPT !.replanned = TRUE]
    /\ UNCHANGED <<server, maildir, uidFile, mail, mailCols, listing, f, h, br, tv, call>>

\* the sync is run once more from the state its first run started in, the
\* server now listing the mailboxes in the opposite order
SyncAgain ==
    /\ s.pc = "done" /\ s.first = <<>>
    /\ ~s.replanned
    /\ p.pc = "done" /\ p.result = "ok"
    /\ listing' = [i \in 1..Len(listing) |-> listing[Len(listing) + 1 - i]]
    /\ mail' = s.startMail
    /\ maildir' = s.startDir
    /\ server' = s.startServer
    /\ s' = [SIdle EXCEPT !.first = <<[mail |-> mail, maildir |-> maildir,
                                       server |-> server, result |-> s.result,
                                       refused |-> s.refused]>>]
    /\ UNCHANGED <<uidFile, mailCols, f, h, p, br, tv, call>>

\* the flags of the rows in the runs of the sync
SyncRowFlags == { <<>>, <<"S">>, <<"U">>, <<"T">>, <<"E">>, <<"F">> }

\* the rows the index can hold in the runs of the sync: written under
\* UIDVALIDITY 100, with the Message-ID <a> and one of the flags (in the other
\* mailbox none, T or E; U under uid 1 only) or, in the other mailbox, with
\* the fallback id
SyncRowMenu ==
    { r \in RowMenuOf(SyncRowFlags) :
        /\ r[3] = <<"a">>
        /\ r[1] = INBOX \/ r[4] \in { <<>>, <<"T">>, <<"E">> }
        /\ r[4] = <<"U">> => FromI64(r[2]).uid = 1 }
    \cup { <<OtherBox, to_i64(MaildirIDNew(100, 1)),
             fallback_mid(OtherBox, MaildirIDNew(100, 1)), <<>>>> }

\* the messages the server can hold in the runs of the sync: with the
\* Message-ID <a>, unflagged, deleted or, in INBOX, seen or (under UID 1)
\* answered and flagged; in the other mailbox also with no Message-ID
SyncMsgMenu ==
    { m \in MsgMenu : /\ m[2].mid = <<>> => (m[1] = OtherBox /\ m[2].uid = 1)
                      /\ SeenFlag \in m[2].flags => m[1] = INBOX }
    \cup { <<INBOX, [uid |-> 1, mid |-> <<"a">>, flags |-> {AnsweredFlag, FlaggedFlag}]>> }

\* the Maildirs that hold a file for each of the rows
DirsOf(rows) ==
    [b \in PBoxes \cup {Gone} |->
        { [id |-> IdName(FromI64(r[2])), flags |-> normalize_flags(r[4]), new |-> FALSE]
          : r \in { x \in rows : x[1] = b } }]

\* the runs of the sync: whether the other mailbox is the trash folder, the
\* UIDVALIDITY of INBOX, the mailboxes named on the command line and whether
\* the file of one row has been lost
SyncEnvs ==
    { [trash |-> FALSE, validity |-> 100, mailboxes |-> <<>>, lossy |-> FALSE],
      [trash |-> TRUE, validity |-> 100, mailboxes |-> <<>>, lossy |-> FALSE],
      [trash |-> TRUE, validity |-> 200, mailboxes |-> <<>>, lossy |-> FALSE],
      [trash |-> TRUE, validity |-> 100, mailboxes |-> <<INBOX>>, lossy |-> FALSE],
      [trash |-> TRUE, validity |-> 100, mailboxes |-> <<>>, lossy |-> TRUE] }

InitSync ==
    \E env \in SyncEnvs :
        /\ listing = <<[name |-> INBOX, trash |-> FALSE],
                       [name |-> OtherBox, trash |-> env.trash]>>
        /\ \E M \in MsgSetsOf(PMaxMsgs, SyncMsgMenu) :
              server = [b \in PBoxes |->
                          [validity |-> IF b = INBOX THEN env.validity ELSE 100,
                           next |-> PMaxUid + 1,
                           msgs |-> { m[2] : m \in { x \in M : x[1] = b } }]]
        /\ \E R \in RowSetsOf(PMaxRows, SyncRowMenu) :
              /\ mail = TableOf(R)
              /\ IF env.lossy
                 THEN \E r \in R : maildir = DirsOf(R \ {r})
                 ELSE maildir = DirsOf(R)
        /\ mailCols = IF mail = <<>> THEN 0 ELSE 4
        /\ uidFile = NoFile
        /\ f = [FIdle EXCEPT !.pc = "off"]
        /\ h = HInit
        /\ p = [PIdle EXCEPT !.mailboxes = env.mailboxes]
        /\ s = SIdle
        /\ br = BIdle
        /\ tv = TIdle
        /\ call = CallIdle

NextSync ==
    \/ PlanStart
    \/ PlanBegin
    \/ PlanMailbox
    \/ PlanFinish
    \/ SyncStart
    \/ SyncSelect
    \/ SyncRow
    \/ SyncTrashMove
    \/ SyncTrashFile
    \/ SyncTrashRow
    \/ SyncDeleteStore
    \/ SyncDeleteRow
    \/ SyncDeleteFile
    \/ SyncExpunge
    \/ SyncRemote
    \/ SyncSeen
    \/ SyncLinkCp
    \/ SyncLinkRow
    \/ SyncFetch
    \/ SyncFetchStore
    \/ SyncFetchRow
    \/ SyncFlagPass
    \/ SyncStaleFile
    \/ SyncStaleRow
    \/ SyncLogout
    \/ SyncReplan

SpecSync == InitSync /\ [][NextSync]_vars

\* ------------------------------------------------------------ the browser

\* impl TryFrom<&str> for MaildirID: the two numbers around the underscore
TryFromName(id_name) == MaildirIDNew(id_name[1], id_name[3])

\* EasyMail::add_flag2: the letter is pushed, present or not
add_flag2(flags, flag) == Append(flags, flag)

\* a removal of the first occurrence only
remove_first(flags, flag) ==
    IF HasFlag(flags, flag)
    THEN LET k == CHOOSE i \in 1..Len(flags) :
                     flags[i] = flag /\ \A j \in 1..(i - 1) : flags[j] # flag
         IN  SubSeq(flags, 1, k - 1) \o SubSeq(flags, k + 1, Len(flags))
    ELSE flags

\* EasyMail::remove_flag2: every occurrence of the letter is replaced by ""
remove_flag2(flags, flag) == RemoveLetter(flags, flag)

\* EasyMail::mark_as_read
mark_as_read(flags, read) ==
    IF read THEN remove_flag2(add_flag2(flags, SEEN), UNREAD)
    ELSE add_flag2(remove_flag2(flags, SEEN), UNREAD)

\* the flags in memory after the key: r, u, t or d
KeyFlags(flags, key) ==
    IF key = "r" THEN mark_as_read(flags, TRUE)
    ELSE IF key = "u" THEN mark_as_read(flags, FALSE)
    ELSE IF key = "t" THEN add_flag2(mark_as_read(flags, TRUE), TRASHED)
    ELSE add_flag2(flags, DELETE)

\* EasyMail::save_flags: maildir.set_flags(&id, &flags) renames the file
save_flags(entries, e, flags) ==
    (entries \ {e}) \cup { [e EXCEPT !.flags = normalize_flags(flags)] }

\* an UPDATE that also names the mailbox
UpdateFlagsInMailbox(table, mailbox, flags, uid) ==
    [i \in 1..Len(table) |->
        IF Len(table[i]) = 4 /\ table[i][1] = mailbox /\ table[i][2] = uid
        THEN <<table[i][1], table[i][2], table[i][3], flags>>
        ELSE table[i]]

\* "UPDATE mail SET flags = ? WHERE uid = ?"
UpdateFlagsStatement(table, mailbox, flags, uid) ==
    [i \in 1..Len(table) |->
        IF Len(table[i]) = 4 /\ table[i][2] = uid
        THEN <<table[i][1], table[i][2], table[i][3], flags>>
        ELSE table[i]]

\* the mails the browser lists: those of the mailbox's cur
list_cur(entries) == { e \in entries : ~e.new }

\* show_listing: the browser is opened on a mailbox that holds one mail, so
\* that no two mails share a Message-ID (lines 60-67), and one of the keys r,
\* u, t, d is pressed on it: the flags in memory, the file, the index
BrowseKey ==
    /\ br.pc = "idle"
    /\ s.pc = "done" /\ s.replanned /\ p.pc = "done"
    /\ mailCols = 4
    /\ \E mailbox \in DOMAIN server : \E e \in list_cur(maildir[mailbox]) :
       \E key \in {"r", "u", "t", "d"} :
          LET flags == KeyFlags(e.flags, key)
          IN  /\ list_cur(maildir[mailbox]) = {e}
              /\ maildir' = [maildir EXCEPT ![mailbox] = save_flags(@, e, flags)]
              /\ mail' = UpdateFlagsStatement(mail, mailbox, flags, to_i64(TryFromName(e.id)))
              /\ br' = [pc |-> "done", mailbox |-> mailbox, id |-> e.id, key |-> key]
    /\ UNCHANGED <<server, uidFile, mailCols, listing, f, h, p, s, tv, call>>

\* the runs of planner and sync with a key pressed in the browser afterwards
NextEdit == NextSync \/ BrowseKey

SpecEdit == InitSync /\ [][NextEdit]_vars

\* the runs of either program: of the fetcher, where planner and sync are not
\* run, against the three-column table its INSERT fits and with no .uid file
\* yet, and of planner and sync, where the fetcher is not run
\* the sync run under either order of the mailboxes
NextOrder == NextSync \/ SyncAgain

SpecOrder == InitSync /\ [][NextOrder]_vars

\* no program runs while a conversion is called on its own
Quiet ==
    /\ server = <<>>
    /\ maildir = <<>>
    /\ uidFile = NoFile
    /\ mail = <<>>
    /\ mailCols = 0
    /\ listing = <<>>
    /\ f = [FIdle EXCEPT !.pc = "off"]
    /\ h = HInit
    /\ p = [PIdle EXCEPT !.pc = "off"]
    /\ s = [SIdle EXCEPT !.pc = "off"]
    /\ br = [BIdle EXCEPT !.pc = "off"]

QuietFrame ==
    UNCHANGED <<server, maildir, uidFile, mail, mailCols, listing, f, h, p, s, br>>

\* the calls of the MaildirID conversions: every (uid_validity, uid) and
\* every u64
InitPack ==
    /\ Quiet
    /\ tv = TIdle
    /\ \/ \E v \in 0..(Word - 1), u \in 0..(Word - 1) :
              call = [pc |-> "id", uid_validity |-> v, uid |-> u]
       \/ \E x \in 0..(DWord - 1) : call = [pc |-> "word", x |-> x]

\* MaildirID::new, to_u64, to_i64 and MaildirID::from of the result
PackId ==
    /\ call.pc = "id"
    /\ LET id == MaildirIDNew(call.uid_validity, call.uid)
       IN  call' = [pc |-> "id_done", id |-> id, u64 |-> to_u64(id), i64 |-> to_i64(id),
                    back |-> FromI64(to_i64(id))]
    /\ QuietFrame
    /\ UNCHANGED tv

\* store_i64 and load_i64 of the result
PackWord ==
    /\ call.pc = "word"
    /\ call' = [pc |-> "word_done", x |-> call.x, i64 |-> store_i64(call.x),
                back |-> load_i64(store_i64(call.x))]
    /\ QuietFrame
    /\ UNCHANGED tv

NextPack == PackId \/ PackWord

SpecPack == InitPack /\ [][NextPack]_vars

\* ------------------------------------------------- the thread view
\*
\* A Message-ID is a number: mail k of the Maildir listing has the Message-ID
\* k, or that of the first mail; 0 is the id of no mail of the mailbox.

\* the ids the In-Reply-To headers of n mails can name: none, one, one twice
\* or two, the smaller first
RefLists(n) ==
    {<<>>} \cup { <<a>> : a \in 0..n }
           \cup { r \in { <<a, b>> : a, b \in 0..n } : r[1] <= r[2] }

\* the Date headers
TDates == {1, 2}

\* EasyMail::new_pseudo: MaildirID (0, 0), the id as subject, date zero; mid
\* is the key it gets in mails_by_id
new_pseudo(mid) ==
    [id |-> 0, mid |-> mid, subject |-> mid, date |-> 0, irt |-> <<>>, pseudo |-> TRUE]

\* the positions of the keys in the order of a stable sort
RECURSIVE StableOrder(_, _)
StableOrder(keys, left) ==
    IF left = {} THEN <<>>
    ELSE LET m == CHOOSE i \in left :
                    \A j \in left : keys[i] < keys[j] \/ (keys[i] = keys[j] /\ i <= j)
         IN  <<m>> \o StableOrder(keys, left \ {m})

\* lines 60-69: mails_by_id over the first n mails, or <<>> once a Message-ID
\* is met again
RECURSIVE MailsById(_, _)
MailsById(mails, n) ==
    IF n = 0 THEN <<[k \in {} |-> 0]>>
    ELSE LET less == MailsById(mails, n - 1)
         IN  IF less = <<>> \/ mails[n].mid \in DOMAIN less[1] THEN <<>>
             ELSE <<[k \in DOMAIN less[1] \cup {mails[n].mid} |->
                       IF k = mails[n].mid THEN n ELSE less[1][k]]>>

\* a pseudo mail no later reference finds
Forget(by_id, mid, node) == by_id

\* line 105: mails_by_id.insert(mid, pseudomail)
Remember(by_id, mid, node) ==
    [k \in DOMAIN by_id \cup {mid} |-> IF k = mid THEN node ELSE by_id[k]]

\* lines 95-108: the edges for the ids of the In-Reply-To headers of the mail
\* at node i; an id of no known mail gets a pseudo mail and a node
RECURSIVE AddEdges(_, _, _)
AddEdges(g, i, tokens) ==
    IF tokens = <<>> THEN g
    ELSE LET mid == Head(tokens)
         IN  IF mid \in DOMAIN g.by_id
             THEN AddEdges([g EXCEPT !.edges = Append(@, <<g.by_id[mid], i>>)],
                           i, Tail(tokens))
             ELSE LET node == Len(g.nodes) + 1
                  IN  AddEdges([nodes |-> Append(g.nodes, new_pseudo(mid)),
                                edges |-> Append(g.edges, <<node, i>>),
                                by_id |-> Remember(g.by_id, mid, node)],
                               i, Tail(tokens))

\* neighbors_directed(node, Outgoing): the targets of the edges of the node,
\* the edge added last first
Neighbors(edges, node) ==
    LET out == SelectSeq(edges, LAMBDA e : e[1] = node)
    IN  [k \in 1..Len(out) |-> out[Len(out) + 1 - k][2]]

\* Dfs::new and dfs.next until None: the nodes in the order the walk yields
\* them; a node popped from the stack is yielded and its undiscovered
\* successors are pushed unless it was discovered before
RECURSIVE Dfs(_, _, _, _)
Dfs(edges, stack, discovered, out) ==
    IF stack = <<>> THEN out
    ELSE LET node == stack[Len(stack)]
             rest == SubSeq(stack, 1, Len(stack) - 1)
         IN  IF node \in discovered THEN Dfs(edges, rest, discovered, out)
             ELSE Dfs(edges,
                      rest \o SelectSeq(Neighbors(edges, node),
                                        LAMBDA k : k \notin discovered \cup {node}),
                      discovered \cup {node}, Append(out, node))

\* a sort key that looks at the date of the mail alone
OwnDate(nodes, edges, node) == nodes[node].date

\* the sort key of roots and replies: the latest date the Dfs meets
SubtreeMax(nodes, edges, node) ==
    SetMax({ nodes[node].date }
           \cup { nodes[k].date : k \in Range(Dfs(edges, <<node>>, {}, <<>>)) })

\* the replies sorted by the key; sort_unstable_by_key may leave equal keys in
\* either order
Replies(nodes, edges, node, up) ==
    LET out == Neighbors(edges, node)
        seq == IF up THEN out ELSE [k \in 1..Len(out) |-> out[Len(out) + 1 - k]]
        order == StableOrder([k \in 1..Len(seq) |-> SubtreeMax(nodes, edges, seq[k])],
                             1..Len(seq))
    IN  [k \in 1..Len(order) |-> seq[order[k]]]

\* a print_thread that looks at no set of printed mails
NeverPrinted(printed, node) == FALSE

\* line 131: mails_printed.borrow().contains(&mail)
AlreadyPrinted(printed, node) == node \in printed

\* the In-Reply-To headers of the mailboxes of three mails: none, the id of
\* the first mail, or ids of no mail (0 and 4)
ThreeRefs == {<<>>, <<1>>, <<0>>, <<4>>, <<0, 4>>}

\* the Maildirs show_listing can be called on: at most TMaxMails mails, the
\* second one possibly with the Message-ID of the first, or three mails with
\* Message-IDs of their own
InitThread ==
    /\ Quiet
    /\ call = CallIdle
    /\ \/ \E n \in 0..TMaxMails :
             \E mids \in [1..n -> 1..TMaxMails], dates \in [1..n -> TDates],
                irts \in [1..n -> RefLists(n)] :
                 /\ \A k \in 1..n : mids[k] = k \/ (k = 2 /\ mids[k] = 1)
                 /\ tv = [TIdle EXCEPT !.pc = "list",
                             !.mails = [k \in 1..n |->
                                          [id |-> k, mid |-> mids[k], subject |-> 0 - k,
                                           date |-> dates[k],
                                           irt |-> irts[k], pseudo |-> FALSE]]]
       \/ \E dates \in [1..3 -> TDates], irts \in [1..3 -> ThreeRefs] :
             tv = [TIdle EXCEPT !.pc = "list",
                      !.mails = [k \in 1..3 |->
                                   [id |-> k, mid |-> k, subject |-> 0 - k, date |-> dates[k],
                                    irt |-> irts[k], pseudo |-> FALSE]]]

\* lines 51-58: list_cur, get_mails2 and the sort by date
ThreadList ==
    /\ tv.pc = "list"
    /\ LET order == StableOrder([k \in 1..Len(tv.mails) |-> tv.mails[k].date],
                                1..Len(tv.mails))
       IN  tv' = [tv EXCEPT !.pc = "index", !.listed = tv.mails,
                     !.mails = [k \in 1..Len(order) |-> tv.mails[order[k]]]]
    /\ QuietFrame
    /\ UNCHANGED call

\* lines 60-82: mails_by_id; show_listing returns when a Message-ID is met
\* twice
ThreadIndex ==
    /\ tv.pc = "index"
    /\ LET by_id == MailsById(tv.mails, Len(tv.mails))
       IN  tv' = IF by_id = <<>>
                 THEN [tv EXCEPT !.pc = "done", !.result = "duplicate", !.ret = "Ok"]
                 ELSE [tv EXCEPT !.pc = "nodes", !.by_id = by_id[1]]
    /\ QuietFrame
    /\ UNCHANGED call

\* lines 84-92: a node for every mail
ThreadNodes ==
    /\ tv.pc = "nodes"
    /\ tv' = [tv EXCEPT !.pc = "edges", !.nodes = tv.mails, !.i = 1]
    /\ QuietFrame
    /\ UNCHANGED call

\* lines 93-109: the edges of the next mail; after the last one, lines
\* 110-120: the roots, sorted by the latest date under them
ThreadEdges ==
    /\ tv.pc = "edges"
    /\ IF tv.i <= Len(tv.mails)
       THEN LET g == AddEdges([nodes |-> tv.nodes, edges |-> tv.edges, by_id |-> tv.by_id],
                              tv.i, tv.mails[tv.i].irt)
            IN  tv' = [tv EXCEPT !.nodes = g.nodes, !.edges = g.edges, !.by_id = g.by_id,
                          !.i = @ + 1]
       ELSE LET roots == SelectSeq([k \in 1..Len(tv.nodes) |-> k],
                                   LAMBDA k : \A e \in Range(tv.edges) : e[2] # k)
                order == StableOrder([k \in 1..Len(roots) |->
                                        SubtreeMax(tv.nodes, tv.edges, roots[k])],
                                     1..Len(roots))
            IN  tv' = [tv EXCEPT !.pc = "print",
                          !.roots = [k \in 1..Len(order) |-> roots[order[k]]]]
    /\ QuietFrame
    /\ UNCHANGED call

\* lines 152-157: print_thread is called for the next root, to be placed
\* after the row x
ThreadPrint ==
    /\ tv.pc = "print"
    /\ IF tv.roots = <<>>
       THEN tv' = [tv EXCEPT !.pc = "done", !.result = "ok", !.ret = "Ok"]
       ELSE tv' = [tv EXCEPT !.pc = "walk", !.roots = Tail(@), !.x = Len(tv.tree),
                     !.stack = <<[node |-> Head(tv.roots), placement |-> "After",
                                  parent |-> tv.x]>>]
    /\ QuietFrame
    /\ UNCHANGED call

\* print_thread (lines 129-148), the pending calls kept on a stack: a mail
\* not yet printed is inserted into the tree and print_thread is called for
\* its replies, to be placed as its last children
ThreadWalk ==
    /\ tv.pc = "walk"
    /\ IF tv.stack = <<>>
       THEN tv' = [tv EXCEPT !.pc = "print"]
       ELSE LET c == Head(tv.stack)
                entry == Len(tv.tree) + 1
            IN  IF AlreadyPrinted(tv.printed, c.node)
                THEN tv' = [tv EXCEPT !.stack = Tail(@)]
                ELSE \E up \in BOOLEAN :
                       LET replies == Replies(tv.nodes, tv.edges, c.node, up)
                       IN  tv' = [tv EXCEPT
                                    !.printed = @ \cup {c.node},
                                    !.tree = Append(@, c),
                                    !.stack = [k \in 1..Len(replies) |->
                                                 [node |-> replies[k],
                                                  placement |-> "LastChild",
                                                  parent |-> entry]] \o Tail(@)]
    /\ QuietFrame
    /\ UNCHANGED call

NextThread ==
    \/ ThreadList
    \/ ThreadIndex
    \/ ThreadNodes
    \/ ThreadEdges
    \/ ThreadPrint
    \/ ThreadWalk

SpecThread == InitThread /\ [][NextThread]_vars

\* the rows of the tree in the order of their insertion: the Message-ID of
\* the mail (the subject of a pseudo mail), and that of the mail it was put
\* under, its own for a top-level row
Rendered(v) ==
    [k \in 1..Len(v.tree) |->
        <<v.nodes[v.tree[k].node].mid,
          IF v.tree[k].placement = "LastChild"
          THEN v.nodes[v.tree[v.tree[k].parent].node].mid
          ELSE v.nodes[v.tree[k].node].mid>>]

\* show_listing is called once more on the same mails, list_cur now yielding
\* them in the opposite order
ThreadAgain ==
    /\ tv.pc = "done" /\ tv.first = <<>>
    /\ tv' = [TIdle EXCEPT !.pc = "list",
                 !.mails = [k \in 1..Len(tv.listed) |->
                              tv.listed[Len(tv.listed) + 1 - k]],
                 !.first = <<[rendered |-> Rendered(tv), result |-> tv.result]>>]
    /\ QuietFrame
    /\ UNCHANGED call

NextRelist == NextThread \/ ThreadAgain

\* ------------------------------------------------- the flags of a mail
\*
\* An EasyMail with any flag string of the letters below, and a sequence of
\* at most FMaxOps calls of its flag operations.

FlagLetters == {SEEN, UNREAD, TRASHED}

\* the flag strings get_mails can read from a file name
FlagStrings == UNION { [1..k -> FlagLetters] : k \in 0..FMaxLen }

InitFlags ==
    /\ Quiet
    /\ tv = TIdle
    /\ \E flags \in FlagStrings :
          call = [pc |-> "flags", flags |-> flags, before |-> flags, op |-> <<>>,
                  last |-> [c \in FlagLetters |-> "none"], n |-> 0]

\* add_flag2(c)
FlagAdd ==
    /\ call.pc = "flags" /\ call.n < FMaxOps
    /\ \E c \in FlagLetters :
          call' = [call EXCEPT !.flags = add_flag2(@, c), !.before = call.flags,
                      !.op = <<"add_flag2", c>>, !.last[c] = "added", !.n = @ + 1]
    /\ QuietFrame
    /\ UNCHANGED tv

\* remove_flag2(c)
FlagRemove ==
    /\ call.pc = "flags" /\ call.n < FMaxOps
    /\ \E c \in FlagLetters :
          call' = [call EXCEPT !.flags = remove_flag2(@, c), !.before = call.flags,
                      !.op = <<"remove_flag2", c>>, !.last[c] = "removed", !.n = @ + 1]
    /\ QuietFrame
    /\ UNCHANGED tv

\* mark_as_read(read)
FlagMark ==
    /\ call.pc = "flags" /\ call.n < FMaxOps
    /\ \E read \in BOOLEAN :
          call' = [call EXCEPT !.flags = mark_as_read(@, read), !.before = call.flags,
                      !.op = <<"mark_as_read", read>>,
                      !.last[SEEN] = IF read THEN "added" ELSE "removed",
                      !.last[UNREAD] = IF read THEN "removed" ELSE "added",
                      !.n = @ + 1]
    /\ QuietFrame
    /\ UNCHANGED tv

NextFlags == FlagAdd \/ FlagRemove \/ FlagMark

SpecFlags == InitFlags /\ [][NextFlags]_vars

\* ------------------------------------------------- the message adapter
\*
\* get_mails and get_mails2 have the same body. An entry has a well-formed
\* id and a parsable file; its Date header is a timestamp, Absent (no
\* header) or Junk (not a date), its From header an address (a positive
\* number), Absent or Junk.

DateHeaders == {Absent, Junk, 1, 2}
FromHeaders == {Absent, Junk, 7}

\* mailparse::dateparse: the timestamp of a date; for any other text the
\* crate, which is not part of the sources, answers an error or Ok(0)
dateparse(date) == IF date > 0 THEN {date} ELSE {Junk, 0}

\* get_all_values(header).join(" "): the empty string without the header
HeaderText(value) == IF value = Absent THEN <<>> ELSE <<value>>

\* addrparse(..).map(extract_single_info).ok().flatten(): None unless the
\* text is one address
addrparse(from_raw) == IF from_raw # <<>> /\ from_raw[1] > 0 THEN <<from_raw[1]>> ELSE <<>>

\* date.format("%Y-%m-%d %H:%M")
DateIso(date) == <<"%Y-%m-%d %H:%M", date>>

\* EasyMail::from: the display name of the parsed sender, or else from_raw
EasyFrom(m) == IF m.from # <<>> THEN <<"name", m.from[1]>> ELSE m.from_raw

InitMails ==
    /\ Quiet
    /\ tv = TIdle
    /\ \E n \in 0..GMaxEntries, fn \in {"get_mails", "get_mails2"} :
          \E dates \in [1..n -> DateHeaders], froms \in [1..n -> FromHeaders] :
              call = [pc |-> fn,
                      entries |-> [k \in 1..n |-> [id |-> k, date |-> dates[k],
                                                   from |-> froms[k]]],
                      mails |-> <<>>, ret |-> "none"]

\* the body of the loop for the next entry: a date that dateparse refuses
\* ends the call with the error
GetMailsEntry ==
    /\ call.pc \in {"get_mails", "get_mails2"}
    /\ Len(call.mails) < Len(call.entries)
    /\ LET maile == call.entries[Len(call.mails) + 1]
           from_raw == HeaderText(maile.from)
       IN  \E date \in dateparse(maile.date) :
             call' = IF date = Junk
                     THEN [call EXCEPT !.pc = "done", !.ret = "Err", !.mails = <<>>]
                     ELSE [call EXCEPT !.mails = Append(@,
                              [id |-> maile.id, from |-> addrparse(from_raw),
                               from_raw |-> from_raw, date |-> date,
                               date_iso |-> DateIso(date)])]
    /\ QuietFrame
    /\ UNCHANGED tv

\* Ok(mails)
GetMailsReturn ==
    /\ call.pc \in {"get_mails", "get_mails2"}
    /\ Len(call.mails) = Len(call.entries)
    /\ call' = [call EXCEPT !.pc = "done", !.ret = "Ok"]
    /\ QuietFrame
    /\ UNCHANGED tv

NextMails == GetMailsEntry \/ GetMailsReturn

SpecMails == InitMails /\ [][NextMails]_vars

SpecRelist == InitThread /\ [][NextRelist]_vars

InitRuns == (InitFetch /\ mailCols = 3 /\ uidFile = NoFile) \/ InitSync

NextRuns == NextFetch \/ NextSync

SpecRuns == InitRuns /\ [][NextRuns]_vars

\* ================================================================ claims
\* ---------------------------------------------------------------- fetcher

ServerV == server[INBOX].validity
ServerN == server[INBOX].next

\* the two numbers of `.uid` as the claims read them: a field that is missing
\* or spells no number counts 0
OldValidity(file) ==
    IF file # NoFile /\ Len(file) >= 1 /\ file[1] \in 0..(Word - 1) THEN file[1] ELSE 0
OldLast(file) ==
    IF file # NoFile /\ Len(file) = 2 /\ file[2] \in 0..(Word - 1) THEN file[2] ELSE 0

\* the server is still as the run saw it
SameServer == ~h.srvChanged

PastChoose ==
    /\ f.pc \in {"fetch", "prepare", "loop", "store", "insert", "logout", "done"}
    /\ SameServer

\* C1: once the range is chosen: a changed UIDVALIDITY gives the range 1:*,
\* else a UIDNEXT other than last_uid + 1 gives {last_uid+1}:*, and in both
\* cases that range is the one the UID FETCH is issued with; else no UID FETCH
\* is issued, `.uid` is not written and the session is logged out.
C1_RangeChoice ==
    PastChoose =>
        IF ServerV # OldValidity(h.startUid)
        THEN f.fetch_range = <<1>> /\ (f.pc # "fetch" => h.issued)
        ELSE IF ServerN # OldLast(h.startUid) + 1
        THEN f.fetch_range = <<OldLast(h.startUid) + 1>> /\ (f.pc # "fetch" => h.issued)
        ELSE /\ f.pc = "done" /\ f.result = "ok"
             /\ ~h.issued /\ ~h.uidWritten /\ uidFile = h.startUid
             /\ h.loggedOut

C1_Witness ==
    /\ h.issued
    /\ ServerV = OldValidity(h.startUid)
    /\ OldLast(h.startUid) >= 1
    /\ f.fetch_range = <<OldLast(h.startUid) + 1>>

\* C2: a run that follows a completed run, with no change on the server in
\* between, ends with `.uid`, the Maildir and the index as they were when it
\* started, that is, as the run before left them.
C2_Idempotent ==
    (f.pc = "done" /\ h.pairOk) =>
        /\ uidFile = h.startUid
        /\ maildir[INBOX] = h.startDir
        /\ mail = h.startMail

C2_Witness ==
    /\ f.pc = "done" /\ h.pairOk /\ h.prevWrote
    /\ h.startDir # {} /\ h.startMail # <<>>

C4_EpochReset ==
    ( /\ f.pc = "done" /\ SameServer
      /\ h.startUid = <<100, 3>>
      /\ ServerV = 200 /\ ServerN = 2
      /\ { m.uid : m \in server[INBOX].msgs } = {1} ) =>
        /\ f.result = "ok"
        /\ \E e \in maildir[INBOX] : e.id = <<200, Sep, 1>>
        /\ uidFile = <<200, 1>>

\* C5: a step that rewrites `.uid` while the UIDVALIDITY it held is the
\* server's does not lower its last_uid.
C5_Monotonic ==
    [][ OldValidity(uidFile) = ServerV => OldLast(uidFile') >= OldLast(uidFile) ]_vars

C5_Witness ==
    /\ h.uidWritten
    /\ OldValidity(h.startUid) = ServerV
    /\ OldLast(h.startUid) > ServerN - 1
    /\ h.response # {}
    /\ OldLast(uidFile) = OldLast(h.startUid)

\* C6: `.uid` is written only when every message of the response has been
\* handled and is in the Maildir; after a failed store the run has ended
\* with an error and `.uid` is as it was before the run.
C6_WatermarkLast ==
    /\ (h.uidWritten /\ SameServer) =>
         /\ f.messages = <<>>
         /\ h.handled = h.response
         /\ \A u \in h.response :
              \E e \in maildir[INBOX] : e.id = <<ServerV, Sep, u>>
    /\ h.storeFailed =>
         /\ f.pc = "done" /\ f.result = "err"
         /\ ~h.uidWritten /\ uidFile = h.startUid

C6_Witness ==
    /\ h.storeFailed
    /\ h.handled # {}
    /\ maildir[INBOX] # h.startDir

\* C7: a first run with no `.uid`, against UIDVALIDITY v, UIDNEXT n+1 and the
\* messages 1..n, succeeds and leaves the entries {v}_{u}, one row
\* (mailbox, packed(v,u), message_id, flags) for each and `.uid` = "{v},{n}".
C7_FreshFetch ==
    ( /\ f.pc = "done" /\ h.run = 1 /\ SameServer
      /\ h.startUid = NoFile
      /\ ServerN >= 2
      /\ { m.uid : m \in server[INBOX].msgs } = 1..(ServerN - 1) ) =>
        /\ f.result = "ok"
        /\ { e.id : e \in maildir[INBOX] } = { <<ServerV, Sep, u>> : u \in 1..(ServerN - 1) }
        /\ uidFile = <<ServerV, ServerN - 1>>
        /\ Len(mail) = ServerN - 1
        /\ \A m \in server[INBOX].msgs :
             \E i \in 1..Len(mail) :
                /\ Len(mail[i]) = 4
                /\ mail[i][1] = INBOX
                /\ load_i64(mail[i][2]) = ServerV * Word + m.uid
                /\ mail[i][3] = m.mid

\* ---------------------------------------------------------------- planner

PlanOk == p.pc = "done" /\ p.result = "ok"

\* the mailbox carries \Trash; some mailbox of the LIST answer does
IsTrashBox(mailbox) == \E i \in 1..Len(listing) : listing[i].name = mailbox /\ listing[i].trash
HasTrashFolder == \E i \in 1..Len(listing) : listing[i].trash

\* the mailbox is one the run processes
IsProcessed(mailbox) ==
    /\ \E i \in 1..Len(listing) : listing[i].name = mailbox
    /\ p.mailboxes = <<>> \/ \E i \in 1..Len(p.mailboxes) : p.mailboxes[i] = mailbox

\* the Message-ID is one of the remote listing of the mailbox: of a message
\* there that is not flagged \Deleted
Listed(mailbox, message_id) ==
    \E m \in server[mailbox].msgs :
        /\ DeletedFlag \notin m.flags
        /\ message_id = IF m.mid = <<>>
                        THEN <<"<", mailbox, server[mailbox].validity, m.uid, "@no-message-id>">>
                        ELSE m.mid

\* the rows the index held when planning started, those of processed mailboxes
StartRows ==
    { p.startMail[i] : i \in { j \in 1..Len(p.startMail) :
                                 Len(p.startMail[j]) = 4 /\ IsProcessed(p.startMail[j][1]) } }

RowId(r) == [uid_validity |-> load_i64(r[2]) \div Word, uid |-> load_i64(r[2]) % Word]

\* the places of the plan that hold an action of one of the kinds for the row
ActionsOn(kinds, r) ==
    { i \in 1..Len(p.actions) :
        /\ p.actions[i].kind \in kinds
        /\ p.actions[i].mailbox = r[1]
        /\ p.actions[i].id = RowId(r) }

\* C8: when planning has ended, with a plan or with an error, table `mail`
\* holds the rows it held when planning started.
C8_IndexUnchanged ==
    p.pc = "done" => mail = p.startMail

C8_Witness ==
    /\ PlanOk
    /\ p.touched
    /\ \E i \in 1..Len(p.actions) : p.actions[i].kind = "Hardlink"
    /\ \E i \in 1..Len(p.actions) : p.actions[i].kind \in {"TrashRemote", "DeleteRemote"}

\* C9: a row flagged T outside a trash folder gets exactly one trash action
\* when a trash folder is listed, TrashRemote if its Message-ID is in the
\* remote listing of its mailbox and TrashLocal if not; when none is listed it
\* gets no trash action and stays in the index, and the warning is printed at
\* most once.
C9_TrashPlan ==
    /\ p.warnings <= 1
    /\ \A r \in StartRows :
         (HasFlag(r[4], "T") /\ ~IsTrashBox(r[1])) =>
            /\ (PlanOk /\ HasTrashFolder) =>
                 /\ Cardinality(ActionsOn({"TrashRemote", "TrashLocal"}, r)) = 1
                 /\ ActionsOn({IF Listed(r[1], r[3]) THEN "TrashRemote" ELSE "TrashLocal"}, r) # {}
            /\ ~HasTrashFolder =>
                 /\ ActionsOn({"TrashRemote", "TrashLocal"}, r) = {}
                 /\ \E j \in 1..Len(mail) : mail[j] = r

C9_Witness ==
    /\ PlanOk
    /\ HasTrashFolder
    /\ \E r \in StartRows :
         /\ HasFlag(r[4], "T") /\ ~IsTrashBox(r[1])
         /\ Listed(r[1], r[3])
         /\ ActionsOn({"TrashRemote"}, r) # {}

\* C10 as stated: every row flagged E gets DeleteRemote if its Message-ID is
\* in the remote listing of its mailbox and DeleteLocal if not, whatever its
\* other flags.
C10_DeleteAlways ==
    PlanOk =>
        \A r \in StartRows :
            HasFlag(r[4], "E") =>
                ActionsOn({IF Listed(r[1], r[3]) THEN "DeleteRemote" ELSE "DeleteLocal"}, r) # {}

\* C10 amended: a row flagged E that is not flagged T, or that lies in a
\* trash folder, gets DeleteRemote if its Message-ID is in the remote listing
\* of its mailbox and DeleteLocal if not, with or without a trash folder; a
\* row flagged both T and E outside a trash folder gets no delete action.
C10_DeleteUnlessTrashed ==
    PlanOk =>
        \A r \in StartRows :
            HasFlag(r[4], "E") =>
                IF HasFlag(r[4], "T") /\ ~IsTrashBox(r[1])
                THEN ActionsOn({"DeleteRemote", "DeleteLocal"}, r) = {}
                ELSE /\ Cardinality(ActionsOn({"DeleteRemote", "DeleteLocal"}, r)) = 1
                     /\ ActionsOn({IF Listed(r[1], r[3]) THEN "DeleteRemote"
                                   ELSE "DeleteLocal"}, r) # {}

C10_Witness ==
    /\ PlanOk
    /\ \E r \in StartRows :
         /\ HasFlag(r[4], "E") /\ HasFlag(r[4], "T") /\ IsTrashBox(r[1])
         /\ Listed(r[1], r[3])
         /\ ActionsOn({"DeleteRemote"}, r) # {}

\* the mailboxes the run listed
ListedBoxes == DOMAIN p.remote

\* the items of the list actions of one kind for the mailbox
PlanItems(kind, mailbox) ==
    UNION { Range(p.actions[i].items) :
              i \in { j \in 1..Len(p.actions) :
                        p.actions[j].kind = kind /\ p.actions[j].mailbox = mailbox } }

\* the id under which the remote listing holds the Message-ID
RemoteId(mailbox, message_id) ==
    [uid_validity |-> p.remote[mailbox][message_id].uid_validity,
     uid |-> p.remote[mailbox][message_id].uid]

\* the plan neither trashes nor deletes the row
Kept(r) == ActionsOn({"TrashRemote", "TrashLocal", "DeleteRemote", "DeleteLocal"}, r) = {}

\* the Message-IDs of the mailbox's listing that a kept row holds at exactly
\* the listed (mailbox, uid)
ExactlyIndexed(mailbox) ==
    { m \in DOMAIN p.remote[mailbox] :
        \E r \in StartRows :
            r[1] = mailbox /\ r[3] = m /\ RowId(r) = RemoteId(mailbox, m) /\ Kept(r) }

\* C11 as stated: every tuple of UpdateFlags belongs to a remote message with
\* an index row at exactly its (mailbox, uid) and its Message-ID, and the Seen
\* state of the row's flags differs from the Seen state of the remote flags.
C11_FlagOnlyIfSeenDiffers ==
    PlanOk =>
        \A b \in ListedBoxes : \A t \in PlanItems("UpdateFlags", b) :
            /\ \E m \in ExactlyIndexed(b) : RemoteId(b, m) = t[1]
            /\ HasFlag(t[3], "S") # (SeenFlag \in t[2])

\* C11 amended: UpdateFlags holds a tuple for a remote message if and only if
\* a row that the plan neither trashes nor deletes exists at exactly its
\* (mailbox, uid) with its Message-ID; the tuple carries the remote flags and
\* the row's flags, whether their Seen states differ or agree.
C11_FlagEveryExactRow ==
    PlanOk =>
        \A b \in ListedBoxes :
            /\ { t[1] : t \in PlanItems("UpdateFlags", b) }
                 = { RemoteId(b, m) : m \in ExactlyIndexed(b) }
            /\ \A t \in PlanItems("UpdateFlags", b) :
                 \E m \in ExactlyIndexed(b) : \E r \in StartRows :
                    /\ r[1] = b /\ r[3] = m /\ RowId(r) = t[1]
                    /\ t = <<RemoteId(b, m), p.remote[b][m].flags, r[4]>>

C11_Witness ==
    /\ PlanOk
    /\ \E b \in ListedBoxes : \E t \in PlanItems("UpdateFlags", b) :
          SeenFlag \in t[2] /\ ~HasFlag(t[3], "S")
    /\ \E r \in StartRows : ~Kept(r)

\* every row the index held when planning started
AllStartRows == { r \in Range(p.startMail) : Len(r) = 4 }

\* the rows with the Message-ID that the plan neither trashes nor deletes
KeptRowsOf(message_id) == { r \in AllStartRows : r[3] = message_id /\ Kept(r) }

\* some Hardlink action of the plan links the Message-ID
Hardlinked(message_id) ==
    \E b \in ListedBoxes : \E t \in PlanItems("Hardlink", b) : t[2] = message_id

\* C13 as stated: a Fetch action lists a remote message only if no index row
\* in any mailbox has its Message-ID and its mailbox is not a trash folder.
C13_FetchOnlyUnindexed ==
    PlanOk =>
        \A b \in ListedBoxes : \A id \in PlanItems("Fetch", b) :
            /\ ~IsTrashBox(b)
            /\ \E m \in DOMAIN p.remote[b] :
                  /\ RemoteId(b, m) = id
                  /\ \A r \in AllStartRows : r[3] # m

\* C13 amended: a Fetch action lists a remote message only if its mailbox is
\* not a trash folder and no index row that the plan leaves in place, in any
\* mailbox, has its Message-ID: every row with it is trashed or deleted by
\* the same plan and the plan hardlinks it nowhere.
C13_FetchOnlyUnknown ==
    PlanOk =>
        /\ \A i \in 1..Len(p.actions) :
              p.actions[i].kind = "Fetch" => ~IsTrashBox(p.actions[i].mailbox)
        /\ \A b \in ListedBoxes : \A id \in PlanItems("Fetch", b) :
              \E m \in DOMAIN p.remote[b] :
                  /\ RemoteId(b, m) = id
                  /\ KeptRowsOf(m) = {}
                  /\ ~Hardlinked(m)

C13_Witness ==
    /\ PlanOk
    /\ HasTrashFolder
    /\ \E b \in ListedBoxes : PlanItems("Fetch", b) # {}
    /\ \E b \in ListedBoxes :
          /\ IsTrashBox(b)
          /\ \E m \in DOMAIN p.remote[b] : \A r \in AllStartRows : r[3] # m

\* the triple under which RemoveStale lists a row
StaleTriple(r) == <<RowId(r).uid_validity, RowId(r).uid, load_i64(r[2])>>

\* the Message-ID is a synthesized one
Synthesized(message_id) ==
    Len(message_id) > 0 /\ message_id[Len(message_id)] = "@no-message-id>"

\* C14: the plan ends with its one RemoveStale action, which lists for each
\* processed mailbox exactly the rows of that mailbox, as the plan's trash
\* and delete actions leave them, whose Message-ID is no key of the
\* mailbox's remote listing and is not synthesized, each once.
C14_RemoveStaleExact ==
    PlanOk =>
        LET n == Len(p.actions)
            stale == p.actions[n].items
        IN  /\ n >= 1 /\ p.actions[n].kind = "RemoveStale"
            /\ \A i \in 1..(n - 1) : p.actions[i].kind # "RemoveStale"
            /\ \A i, j \in 1..Len(stale) : stale[i][1] = stale[j][1] => i = j
            /\ \A i \in 1..Len(stale) :
                  /\ stale[i][1] \in ListedBoxes
                  /\ stale[i][2] # <<>>
                  /\ Cardinality(Range(stale[i][2])) = Len(stale[i][2])
            /\ \A b \in PBoxes :
                  UNION { Range(stale[i][2]) : i \in { j \in 1..Len(stale) : stale[j][1] = b } }
                    = { StaleTriple(r) :
                          r \in { x \in StartRows :
                                    /\ x[1] = b /\ Kept(x)
                                    /\ x[3] \notin DOMAIN p.remote[b]
                                    /\ ~Synthesized(x[3]) } }

C14_Witness ==
    /\ PlanOk
    /\ p.actions[Len(p.actions)].items # <<>>
    /\ \E r \in StartRows : Synthesized(r[3]) /\ r[3] \notin DOMAIN p.remote[r[1]]

\* C15: when the server reports another UIDVALIDITY for a mailbox than the
\* one a row of that mailbox was written under, the planning run lists the
\* row in RemoveStale, unless the plan trashes or deletes it.
C15_StaleEpochRemoved ==
    PlanOk =>
        \A r \in StartRows :
            (RowId(r).uid_validity # server[r[1]].validity /\ Kept(r)) =>
                \E i \in 1..Len(p.actions[Len(p.actions)].items) :
                    /\ p.actions[Len(p.actions)].items[i][1] = r[1]
                    /\ StaleTriple(r) \in Range(p.actions[Len(p.actions)].items[i][2])

\* ------------------------------------------------------------------- sync

SyncOk == s.pc = "done" /\ s.result = "ok"

\* the plan the sync ran after is still the one at hand
FirstPlan == PlanOk /\ ~s.replanned

\* the remote message has no index row at its own (mailbox, uid)
NoOwnRow(mailbox, message_id) ==
    \A r \in AllStartRows :
        ~(r[1] = mailbox /\ r[3] = message_id /\ RowId(r) = RemoteId(mailbox, message_id))

\* the UIDs of the mailbox whose bodies the sync has asked for
FetchedUids(mailbox) ==
    UNION { Range(s.log[i].uids) :
              i \in { j \in 1..Len(s.log) : s.log[j].cmd = "FETCH" /\ s.log[j].mailbox = mailbox } }

\* the row is in the index
Indexed(mailbox, id) ==
    \E i \in 1..Len(mail) : Len(mail[i]) = 4 /\ mail[i][1] = mailbox /\ FromI64(mail[i][2]) = id

\* C12 as stated: a remote message with no index row at its own (mailbox,
\* uid) whose Message-ID is indexed under another (mailbox, uid) is in a
\* Hardlink action and in no Fetch action of the plan.
C12_HardlinkIfIndexed ==
    PlanOk =>
        \A b \in ListedBoxes : \A m \in DOMAIN p.remote[b] :
            (NoOwnRow(b, m) /\ \E r \in AllStartRows : r[3] = m) =>
                /\ \E t \in PlanItems("Hardlink", b) : t[1] = RemoteId(b, m)
                /\ RemoteId(b, m) \notin PlanItems("Fetch", b)

\* C12 amended: a remote message with no index row at its own (mailbox, uid)
\* whose Message-ID is indexed under another (mailbox, uid) by a row that the
\* plan neither trashes nor deletes is in a Hardlink action and in no Fetch
\* action of the plan; the sync materialises a message it hardlinks by linking
\* an existing local file and inserting the index row, with no UID FETCH of
\* its body, and it hardlinks every message of the plan's Hardlink actions
\* unless the plan deletes a row of that mailbox with its Message-ID remotely.
C12_HardlinkIfKept ==
    /\ PlanOk =>
          \A b \in ListedBoxes : \A m \in DOMAIN p.remote[b] :
              (NoOwnRow(b, m) /\ KeptRowsOf(m) # {}) =>
                  /\ \E t \in PlanItems("Hardlink", b) : t[1] = RemoteId(b, m)
                  /\ RemoteId(b, m) \notin PlanItems("Fetch", b)
    /\ ~s.replanned =>
        \A l \in s.linked :
          /\ Indexed(l[1], l[2])
          /\ MaildirExists(maildir[l[1]], IdName(l[2]))
          /\ l \notin s.stored
          /\ l[2].uid \notin FetchedUids(l[1])
    /\ (SyncOk /\ FirstPlan) =>
          \A b \in ListedBoxes : \A t \in PlanItems("Hardlink", b) :
              (\A r \in StartRows :
                    (r[1] = b /\ r[3] = t[2]) => ActionsOn({"DeleteRemote"}, r) = {})
                 => <<b, t[1]>> \in s.linked

C12_Witness ==
    /\ SyncOk /\ FirstPlan
    /\ \E b \in ListedBoxes : \E t \in PlanItems("Hardlink", b) : <<b, t[1]>> \in s.linked
    /\ \E i \in 1..Len(s.log) : s.log[i].cmd = "FETCH"

\* the server is as the plan at hand listed it
PlanFresh == PlanOk /\ (s.pc = "idle" \/ s.replanned)

\* the sync has listed the server and processed no mailbox yet
SyncListed == s.pc = "select" /\ s.log = <<>> /\ s.to_remove = <<>> /\ DOMAIN s.remote # {}
              /\ Len(s.todo) = Cardinality(DOMAIN s.remote)

\* the ids of the messages of the mailbox that are flagged \Deleted
DeletedIds(mailbox) ==
    { [uid_validity |-> server[mailbox].validity, uid |-> m.uid]
      : m \in { x \in server[mailbox].msgs : DeletedFlag \in x.flags } }

\* the Message-IDs under which the mailbox's listing would hold its messages
\* flagged \Deleted
DeletedMids(mailbox) ==
    { IF m.mid = <<>>
      THEN <<"<", mailbox, server[mailbox].validity, m.uid, "@no-message-id>">>
      ELSE m.mid : m \in { x \in server[mailbox].msgs : DeletedFlag \in x.flags } }

\* the ids a remote map holds
IdsOf(mails) == { [uid_validity |-> mails[k].uid_validity, uid |-> mails[k].uid] : k \in DOMAIN mails }

\* RemoveStale lists the row
InRemoveStale(r) ==
    \E i \in 1..Len(p.actions[Len(p.actions)].items) :
        /\ p.actions[Len(p.actions)].items[i][1] = r[1]
        /\ StaleTriple(r) \in Range(p.actions[Len(p.actions)].items[i][2])

\* C16: a remote message flagged \Deleted is in the remote map neither of the
\* planner nor of the sync and in no Fetch, Hardlink or UpdateFlags action; a
\* row of its mailbox with its Message-ID, when no other message of the
\* mailbox has that Message-ID, gets no TrashRemote and no DeleteRemote: it is
\* trashed or deleted locally when flagged for it and else listed in
\* RemoveStale, unless its Message-ID is a synthesized one.
C16_DeletedIsAbsent ==
    /\ PlanFresh =>
          \A b \in ListedBoxes :
              /\ IdsOf(p.remote[b]) \cap DeletedIds(b) = {}
              /\ PlanItems("Fetch", b) \cap DeletedIds(b) = {}
              /\ \A t \in PlanItems("Hardlink", b) \cup PlanItems("UpdateFlags", b) :
                    t[1] \notin DeletedIds(b)
              /\ \A r \in StartRows :
                    (r[1] = b /\ r[3] \in DeletedMids(b) /\ ~Listed(b, r[3])) =>
                        /\ ActionsOn({"TrashRemote", "DeleteRemote"}, r) = {}
                        /\ (Kept(r) /\ ~Synthesized(r[3])) => InRemoveStale(r)
                        /\ (HasFlag(r[4], "T") /\ ~IsTrashBox(b) /\ HasTrashFolder)
                              => ActionsOn({"TrashLocal"}, r) # {}
                        /\ (HasFlag(r[4], "E") /\ ~(HasFlag(r[4], "T") /\ ~IsTrashBox(b)))
                              => ActionsOn({"DeleteLocal"}, r) # {}
    /\ SyncListed =>
          \A b \in DOMAIN s.remote : IdsOf(s.remote[b]) \cap DeletedIds(b) = {}

C16_Witness ==
    /\ PlanFresh
    /\ \E b \in ListedBoxes : \E r \in StartRows :
          /\ r[1] = b /\ r[3] \in DeletedMids(b) /\ ~Listed(b, r[3])
          /\ HasFlag(r[4], "E")
          /\ ActionsOn({"DeleteLocal"}, r) # {}
    /\ \E b \in ListedBoxes : \E r \in StartRows :
          /\ r[1] = b /\ r[3] \in DeletedMids(b) /\ ~Listed(b, r[3])
          /\ InRemoveStale(r)

\* the kinds of action a converged plan does not hold
Pending == {"TrashRemote", "TrashLocal", "DeleteRemote", "DeleteLocal", "Hardlink", "Fetch"}

\* the plan at hand was computed after a sync that ran to its end
SecondPlan == PlanOk /\ s.replanned

\* C17: the plan computed after a plan and a sync that ran to its end, with no
\* change of the server or by the user in between, holds no TrashRemote,
\* TrashLocal, DeleteRemote, DeleteLocal, Hardlink or Fetch action, and no
\* tuple of its UpdateFlags actions asks for a change of \Seen on the server.
C17_Converges ==
    SecondPlan =>
        /\ \A i \in 1..Len(p.actions) : p.actions[i].kind \notin Pending
        /\ \A b \in ListedBoxes : \A t \in PlanItems("UpdateFlags", b) :
              SeenStore(t[3], t[2]) = <<>>

\* the commands of the log that move or delete a message
Mutations ==
    { i \in 1..Len(s.log) :
        s.log[i].cmd = "MOVE" \/ (s.log[i].cmd = "STORE" /\ s.log[i].arg = "+\\Deleted") }

\* the rows the index held when the sync started
SyncStartRows == { r \in Range(s.startMail) : Len(r) = 4 }

\* the index still holds the row
StillIndexed(r) == \E i \in 1..Len(mail) : mail[i] = r

\* the row was written under the UIDVALIDITY the server reports for its mailbox
CurrentEpoch(r) == RowId(r).uid_validity = server[r[1]].validity

\* C18: the sync sends no UID MOVE and no UID STORE +FLAGS (\Deleted) for the
\* bare uid of a row written under another UIDVALIDITY than the one its
\* mailbox now has, and it neither trashes nor deletes such a row or its file.
C18_StaleEpochUntouched ==
    /\ \A r \in SyncStartRows :
          ~CurrentEpoch(r) =>
              \A i \in Mutations :
                  ~(s.log[i].mailbox = r[1] /\ RowId(r).uid \in Range(s.log[i].uids))
    /\ s.pc \in {"trash_file", "trash_row", "del_row", "del_file"} => CurrentEpoch(s.row)

\* every row of the table has a Maildir file with its id in its mailbox
RowsHaveFiles(table, dirs) ==
    \A i \in 1..Len(table) :
        MaildirExists(dirs[table[i][1]], IdName(FromI64(table[i][2])))

C19_FetcherWitness ==
    /\ f.pc = "done" /\ f.result = "ok"
    /\ Len(mail) > Len(h.startMail)

\* a sync has ended with Ok and no planning run is under way
SyncQuiet == SyncOk /\ p.pc = "done"

\* the letters the index mirrors from the Maildir file
Mirrored == {SEEN, REPLIED, FLAGGED, TRASHED}

\* the files of the row
FilesOf(r) == Found(maildir[r[1]], IdName(FromI64(r[2])))

\* C20: after a sync that ended with Ok and after a flag edit in the browser,
\* the Maildir file of every index row holds each of the letters S, R, F, T
\* that the row's flags column holds.
C20_IndexMirrorsFile ==
    (SyncQuiet \/ br.pc = "done") =>
        \A i \in 1..Len(mail) :
            FilesOf(mail[i]) # {} =>
                \E e \in FilesOf(mail[i]) :
                    \A c \in Mirrored : HasFlag(mail[i][4], c) => HasFlag(e.flags, c)

\* the (mailbox, uid) keys of the rows of the table
RowKeys(table) == { <<table[i][1], table[i][2]>> : i \in 1..Len(table) }

\* the Maildir holds a file for the key
FileOfKey(dirs, k) == MaildirExists(dirs[k[1]], IdName(FromI64(k[2])))

\* C21: in every step of the fetcher and of the sync that inserts an index
\* row, the Maildir file with the row's id is in the row's mailbox before the
\* step and after it.
C21_FileBeforeRow ==
    [][p' = p =>
          \A k \in RowKeys(mail') \ RowKeys(mail) :
              FileOfKey(maildir, k) /\ FileOfKey(maildir', k)]_vars

C21_Witness ==
    /\ s.pc = "fetch_loop"
    /\ s.stored # {}
    /\ s.linked # {}
    /\ \A l \in s.stored \cup s.linked : Indexed(l[1], l[2])

\* C22: in every step of the sync that deletes an index row, on the trash
\* path, on the E delete path and on the stale-removal path, the Maildir file
\* with the row's id has already left the row's mailbox.
C22_FileRemovedBeforeRow ==
    [][p' = p =>
          \A k \in RowKeys(mail) \ RowKeys(mail') : ~FileOfKey(maildir, k)]_vars

\* C23: a sync that ends with an error leaves the index as it was before the
\* run.
C23_IndexAtomic ==
    (s.pc = "done" /\ s.result = "err") => mail = s.startMail

\* C24: after a sync has ended, every file it removed on the trash path or on
\* the stale-removal path was linked into .gone, is absent from its mailbox
\* and has no index row; two mailboxes may hold files of the same id.
C24_RemovedIsInGone ==
    (s.pc = "done" /\ ~s.replanned) =>
        \A r \in s.removed :
            /\ r \in s.copied
            /\ MaildirExists(maildir[Gone], r[2])
            /\ ~MaildirExists(maildir[r[1]], r[2])
            /\ \A i \in 1..Len(mail) :
                   ~(mail[i][1] = r[1] /\ IdName(FromI64(mail[i][2])) = r[2])

\* the command is the UID STORE +FLAGS.SILENT (\Deleted) of a mailbox
IsDeleteStore(c, mailbox) ==
    c.cmd = "STORE" /\ c.arg = "+\\Deleted" /\ c.mailbox = mailbox

\* C25: every EXPUNGE of the session follows a UID STORE +FLAGS.SILENT
\* (\Deleted) in the same mailbox, and, once the sync has ended with Ok, every
\* such store is followed by an EXPUNGE before a command in another mailbox;
\* the row and the file of the E row are gone by then.
C25_ExpungeIffStore ==
    /\ \A j \in 1..Len(s.log) :
           s.log[j].cmd = "EXPUNGE" =>
               \E i \in 1..(j - 1) : IsDeleteStore(s.log[i], s.log[j].mailbox)
    /\ (s.pc = "done" /\ s.result = "ok") =>
           \A i \in 1..Len(s.log) :
               IsDeleteStore(s.log[i], s.log[i].mailbox) =>
                   \E j \in (i + 1)..Len(s.log) :
                       /\ s.log[j].cmd = "EXPUNGE"
                       /\ \A k \in i..j : s.log[k].mailbox = s.log[i].mailbox

\* the commands the step appends to the log of the session
NewCmds == SubSeq(s'.log, Len(s.log) + 1, Len(s'.log))

\* C26: the step that reconciles the Seen flag of an indexed message sends
\* one UID STORE +FLAGS.SILENT (\Seen) and adds \Seen to the remote flags in
\* memory when the local flags hold S and the remote flags lack \Seen;
\* otherwise one UID STORE -FLAGS.SILENT (\Seen), removing \Seen, when the
\* local flags hold U and the remote flags hold \Seen; otherwise it sends
\* nothing and leaves the remote flags as they are.
C26_SeenReconciled ==
    [][s.pc = "seen" =>
          LET mailbox == s.name.name
              uids == <<s.target.id.uid>>
              local == Range(s.target.flags)
              before == s.remote[mailbox][s.message_id].flags
              after == s'.remote[mailbox][s.message_id].flags
          IN  IF "S" \in local /\ SeenFlag \notin before
              THEN /\ NewCmds = <<Cmd("STORE", mailbox, uids, "+\\Seen")>>
                   /\ after = before \cup {SeenFlag}
              ELSE IF "U" \in local /\ SeenFlag \in before
              THEN /\ NewCmds = <<Cmd("STORE", mailbox, uids, "-\\Seen")>>
                   /\ after = before \ {SeenFlag}
              ELSE NewCmds = <<>> /\ after = before /\ server' = server]_vars

C26_Witness ==
    /\ s.pc = "done" /\ s.result = "ok"
    /\ \E i \in 1..Len(s.log) : s.log[i].arg = "-\\Seen"
    /\ \A m \in server[INBOX].msgs : SeenFlag \notin m.flags

\* the letters the flag pass sets from the remote flags, and U
PassLetters == {"S", "R", "F", "U"}

\* the flags of the file follow the flags of the remote message
FlagsFollow(flags, imap) ==
    /\ "S" \in Range(flags) <=> SeenFlag \in imap
    /\ "R" \in Range(flags) <=> AnsweredFlag \in imap
    /\ "F" \in Range(flags) <=> FlaggedFlag \in imap
    /\ "U" \notin Range(flags)
    /\ \A i, j \in 1..Len(flags) : i # j => flags[i] # flags[j]

\* the files of the mailbox that belong to messages of the remote map
RemoteFiles(entries, remote_mails) ==
    { <<e, remote_mails[k].flags>> : e \in entries, k \in DOMAIN remote_mails }
    \cap { x \in entries \X SUBSET {SeenFlag, AnsweredFlag, FlaggedFlag, DeletedFlag} :
             \E k \in DOMAIN remote_mails :
                 /\ x[2] = remote_mails[k].flags
                 /\ x[1].id = gen_id(remote_mails[k].uid_validity, remote_mails[k].uid) }

\* C27: once the sync has ended with Ok, the file of every remote message of
\* a processed mailbox holds S, R and F exactly as the reconciled remote flags
\* hold \Seen, \Answered and \Flagged, no U and no letter twice; and the flag
\* pass of a mailbox leaves every other letter of such a file as it was.
C27_FlagsFollowRemote ==
    [][/\ (s.pc = "done" /\ s.result = "ok") =>
              \A b \in DOMAIN s.remote :
                  \A x \in RemoteFiles(maildir[b], s.remote[b]) : FlagsFollow(x[1].flags, x[2])
       /\ s.pc = "flags" =>
              \A x \in RemoteFiles(maildir[s.name.name], s.remote[s.name.name]) :
                  \E e \in maildir'[s.name.name] :
                      /\ e.id = x[1].id
                      /\ Range(e.flags) \ PassLetters = Range(x[1].flags) \ PassLetters]_vars

C27_Witness ==
    /\ s.pc = "done" /\ s.result = "ok"
    /\ \E x \in RemoteFiles(maildir[INBOX], s.remote[INBOX]) :
           /\ {"F", "R"} \subseteq Range(x[1].flags)
           /\ Range(x[1].flags) \cap {"T", "E"} # {}
           /\ \E e \in s.startDir[INBOX] :
                  e.id = x[1].id /\ {"F", "R"} \cap Range(e.flags) = {}

\* C28: two runs of the sync from the same state that differ in the order of
\* the mailboxes, the server refusing no SELECT in either, end with the same
\* result and, when that is Ok, with the same Maildir, index and server.
C28_OrderIndependent ==
    (s.pc = "done" /\ s.first # <<>> /\ ~s.refused /\ ~s.first[1].refused) =>
        /\ s.result = s.first[1].result
        /\ s.result = "ok" =>
               /\ maildir = s.first[1].maildir
               /\ Range(mail) = Range(s.first[1].mail)
               /\ server = s.first[1].server

\* ids at the corners of the range and next to the id
PackSamples(id) ==
    { MaildirIDNew(a, b) : a, b \in {0, 1, Word \div 2, Word - 1} }
    \cup { MaildirIDNew(id.uid, id.uid_validity),
           MaildirIDNew(id.uid_validity, (id.uid + 1) % Word),
           MaildirIDNew((id.uid_validity + 1) % Word, id.uid) }

\* C29: MaildirID::from(MaildirID::new(uid_validity, uid).to_i64()) is the id;
\* to_u64 holds uid_validity in its high word and uid in its low word; the
\* i64 of another id is another i64; load_i64(store_i64(x)) is x.
C29_PackRoundTrip ==
    /\ call.pc = "id_done" =>
           /\ call.back = call.id
           /\ call.u64 \div Word = call.id.uid_validity
           /\ call.u64 % Word = call.id.uid
           /\ call.u64 \in 0..(DWord - 1)
           /\ call.i64 \in (0 - DWord \div 2)..(DWord \div 2 - 1)
           /\ \A o \in PackSamples(call.id) : o # call.id => to_i64(o) # call.i64
    /\ call.pc = "word_done" =>
           /\ call.back = call.x
           /\ call.i64 \in (0 - DWord \div 2)..(DWord \div 2 - 1)

C29_Witness ==
    /\ call.pc = "id_done"
    /\ call.i64 < 0
    /\ call.id.uid = Word - 1
    /\ call.id.uid_validity = Word - 1

\* how often the node was inserted into the tree
Inserted(node) == Cardinality({ k \in 1..Len(tv.tree) : tv.tree[k].node = node })

\* C30: once the thread view is drawn, every mail of the mailbox is in the
\* tree exactly once and every pseudo mail at most once.
C30_EveryMailOnce ==
    (tv.pc = "done" /\ tv.result = "ok") =>
        \A k \in 1..Len(tv.nodes) :
            IF tv.nodes[k].pseudo THEN Inserted(k) <= 1 ELSE Inserted(k) = 1

\* what is left to do for print_thread: the mails not yet printed, then the
\* calls still pending
WalkMeasure(v) ==
    (Len(v.nodes) - Cardinality(v.printed)) * (Len(v.edges) + 2) + Len(v.stack)

\* C31: on every graph, reference cycles included, the Dfs from any node
\* yields no node twice, and every call of print_thread either prints a mail
\* not printed before or returns at once, so that the walk ends after at most
\* one call per root and edge; no mail is inserted twice.
C31_WalksTerminate ==
    [][/\ tv.pc \in {"print", "walk"} =>
              \A k \in 1..Len(tv.nodes) :
                  LET out == Dfs(tv.edges, <<k>>, {}, <<>>)
                  IN  /\ Len(out) <= Len(tv.nodes)
                      /\ \A a, b \in 1..Len(out) : a # b => out[a] # out[b]
                      /\ Inserted(k) <= 1
       /\ (tv.pc = "walk" /\ tv.stack # <<>>) =>
              /\ WalkMeasure(tv') < WalkMeasure(tv)
              /\ Len(tv'.stack) <= Len(tv.edges) + 1]_vars

C31_Witness ==
    /\ tv.pc = "done" /\ tv.result = "ok"
    /\ \E k \in 1..Len(tv.nodes) : <<k, k>> \in Range(tv.edges) /\ Inserted(k) = 1
    /\ Len(tv.tree) = Len(tv.nodes)

\* the nodes an edge path leads to from the nodes seen, these included
RECURSIVE ReachFrom(_, _)
ReachFrom(edges, seen) ==
    LET more == seen \cup { e[2] : e \in { d \in Range(edges) : d[1] \in seen } }
    IN  IF more = seen THEN seen ELSE ReachFrom(edges, more)

\* the latest date among the node and the nodes reachable from it
MaxDateUnder(node) ==
    SetMax({ tv.nodes[k].date : k \in ReachFrom(tv.edges, {node}) })

\* the rows inserted after a row, and those inserted as last child of entry e
RootRows == SelectSeq(tv.tree, LAMBDA c : c.placement = "After")
ChildRows(e) == SelectSeq(tv.tree, LAMBDA c : c.placement = "LastChild" /\ c.parent = e)

\* C32: in the drawn tree the top-level rows are exactly the nodes without an
\* incoming edge, each once and in non-decreasing order of the latest date
\* reachable from them; the rows under every row are replies of its mail, in
\* non-decreasing order of the same latest date.
C32_RootsAndOrder ==
    (tv.pc = "done" /\ tv.result = "ok") =>
        /\ { RootRows[k].node : k \in 1..Len(RootRows) }
             = { k \in 1..Len(tv.nodes) : \A e \in Range(tv.edges) : e[2] # k }
        /\ \A a, b \in 1..Len(RootRows) :
               a < b => /\ RootRows[a].node # RootRows[b].node
                        /\ MaxDateUnder(RootRows[a].node) <= MaxDateUnder(RootRows[b].node)
        /\ \A e \in 1..Len(tv.tree) :
               LET kids == ChildRows(e)
               IN  /\ \A a \in 1..Len(kids) : <<tv.tree[e].node, kids[a].node>> \in Range(tv.edges)
                   /\ \A a, b \in 1..Len(kids) :
                          a < b => MaxDateUnder(kids[a].node) <= MaxDateUnder(kids[b].node)

\* two top-level rows and two rows under one row, each pair with different
\* latest dates, the later top-level row owing its place to a reply
C32_Witness ==
    /\ tv.pc = "done" /\ tv.result = "ok"
    /\ \E a, b \in 1..Len(RootRows) :
           /\ a < b
           /\ MaxDateUnder(RootRows[a].node) < MaxDateUnder(RootRows[b].node)
           /\ tv.nodes[RootRows[b].node].date < tv.nodes[RootRows[a].node].date
    /\ \E e \in 1..Len(tv.tree) :
           /\ Len(ChildRows(e)) = 2
           /\ MaxDateUnder(ChildRows(e)[1].node) < MaxDateUnder(ChildRows(e)[2].node)

\* the nodes of the mails of the mailbox and those of the pseudo mails
RealNodes == { k \in 1..Len(tv.nodes) : ~tv.nodes[k].pseudo }
PseudoNodes == { k \in 1..Len(tv.nodes) : tv.nodes[k].pseudo }

\* the ids of the In-Reply-To headers of the mails
Tokens == UNION { Range(tv.nodes[k].irt) : k \in RealNodes }

\* how often a sequence holds a value
Count(seq, x) == Cardinality({ k \in 1..Len(seq) : seq[k] = x })

\* C33: once the graph is built, every id of an In-Reply-To header of a mail
\* has one node, the mail with that Message-ID or else a pseudo mail, with
\* an edge from it to the mail for each time the mail names the id, and there
\* is no other edge; a pseudo mail has the id as subject, MaildirID (0, 0)
\* and date zero, stands for an id some mail names and no mail has, has no
\* incoming edge and at least one outgoing edge. With three mails of which
\* the second replies to the first and the third to an id of no mail, the
\* top-level rows are the first mail and the pseudo mail of that id.
C33_EdgesAndPseudos ==
    (tv.pc \in {"print", "walk"} \/ (tv.pc = "done" /\ tv.result = "ok")) =>
        /\ \A mid \in Tokens :
               \E v \in 1..Len(tv.nodes) :
                   /\ \A w \in 1..Len(tv.nodes) : tv.nodes[w].mid = mid <=> w = v
                   /\ tv.nodes[v].pseudo <=> (\A k \in RealNodes : tv.nodes[k].mid # mid)
                   /\ \A k \in RealNodes :
                          Count(tv.edges, <<v, k>>) = Count(tv.nodes[k].irt, mid)
        /\ \A e \in Range(tv.edges) :
               e[2] \in RealNodes /\ tv.nodes[e[1]].mid \in Range(tv.nodes[e[2]].irt)
        /\ \A v \in PseudoNodes :
               /\ tv.nodes[v] = [id |-> 0, mid |-> tv.nodes[v].mid,
                                  subject |-> tv.nodes[v].mid, date |-> 0,
                                  irt |-> <<>>, pseudo |-> TRUE]
               /\ tv.nodes[v].mid \in Tokens
               /\ \A e \in Range(tv.edges) : e[2] # v
               /\ \E e \in Range(tv.edges) : e[1] = v
        /\ ( /\ tv.pc = "done"
             /\ Len(tv.mails) = 3
             /\ \A k \in 1..3 : tv.nodes[k].irt =
                    (CASE tv.nodes[k].mid = 2 -> <<1>>
                       [] tv.nodes[k].mid = 3 -> <<4>>
                       [] OTHER -> <<>>) )
            => /\ Len(RootRows) = 2
               /\ { tv.nodes[RootRows[k].node].mid : k \in 1..2 } = {1, 4}
               /\ \A k \in 1..2 :
                      tv.nodes[RootRows[k].node].pseudo <=> tv.nodes[RootRows[k].node].mid = 4

\* two mails name the same id of no mail and another id of no mail is named
\* too: two pseudo mails, one of them with two replies
C33_Witness ==
    /\ tv.pc = "done" /\ tv.result = "ok"
    /\ Cardinality(PseudoNodes) = 2
    /\ \E v \in PseudoNodes :
           Cardinality({ k \in RealNodes : <<v, k>> \in Range(tv.edges) }) = 2
    /\ \E k \in RealNodes : tv.nodes[k].irt = <<>>

\* C34: when two mails of the mailbox have the same Message-ID, show_listing
\* returns an error, having built no graph and inserted no row into the tree.
C34_DuplicateIsError ==
    (tv.pc = "done" /\ Count([k \in 1..Len(tv.mails) |-> tv.mails[k].mid], 1) = 2) =>
        /\ tv.ret = "Err"
        /\ tv.nodes = <<>> /\ tv.edges = <<>> /\ tv.tree = <<>>

\* C35: two calls of show_listing on the same mails, listed by the Maildir
\* in opposite orders, insert the same rows in the same order under the same
\* rows.
C35_ListingOrderIrrelevant ==
    (tv.pc = "done" /\ tv.first # <<>>) =>
        /\ tv.result = tv.first[1].result
        /\ Rendered(tv) = tv.first[1].rendered

\* C36: a step of the sync that deletes or hardlinks a Maildir file never
\* ends the run: when the file is missing the run goes on to its next step
\* and does not return an error.
C36_MaildirFailureConfined ==
    [][s.pc \in {"trash_file", "del_file", "link_cp", "stale"} =>
          ~(s'.pc = "done" /\ s'.result = "err")]_vars

\* C38: in a finished plan no message that a TrashRemote or DeleteRemote
\* action names is an item of a Fetch or Hardlink action of the same mailbox.
C38_NoRemoveAndRefetch ==
    PlanOk =>
        \A i \in 1..Len(p.actions) :
            p.actions[i].kind \in {"TrashRemote", "DeleteRemote"} =>
                /\ p.actions[i].id \notin PlanItems("Fetch", p.actions[i].mailbox)
                /\ \A item \in PlanItems("Hardlink", p.actions[i].mailbox) :
                       item[1] # p.actions[i].id

\* C39: a key r, u, t or d pressed in the browser on a mail of a mailbox
\* leaves every index row of every other mailbox as it was, rows with the
\* same packed uid included, and changes no column but flags.
C39_EditStaysInMailbox ==
    [][(br.pc = "idle" /\ br'.pc = "done") =>
          /\ Len(mail') = Len(mail)
          /\ \A i \in 1..Len(mail) :
                 /\ mail[i][1] # br'.mailbox => mail'[i] = mail[i]
                 /\ mail[i][2] # to_i64(TryFromName(br'.id)) => mail'[i] = mail[i]
                 /\ \A c \in 1..3 : mail'[i][c] = mail[i][c]]_vars

\* the letters the last operation was about
Operated ==
    IF call.op = <<>> THEN {}
    ELSE IF call.op[1] = "mark_as_read" THEN {SEEN, UNREAD}
    ELSE {call.op[2]}

\* C40: after any sequence of flag operations has_flag2(c) is true for a
\* letter operated on exactly when the last operation on it added it, and the
\* same as in the string read from the file for a letter never operated on;
\* right after mark_as_read(true) the flags hold S and not U, right after
\* mark_as_read(false) U and not S; an operation leaves has_flag2 of every
\* letter it is not about as it was.
C40_FlagsAsSets ==
    call.pc = "flags" =>
        /\ \A c \in FlagLetters :
               /\ call.last[c] = "added" => HasFlag(call.flags, c)
               /\ call.last[c] = "removed" => ~HasFlag(call.flags, c)
               /\ c \notin Operated => (HasFlag(call.flags, c) <=> HasFlag(call.before, c))
        /\ (call.op = <<"mark_as_read", TRUE>>) =>
               HasFlag(call.flags, SEEN) /\ ~HasFlag(call.flags, UNREAD)
        /\ (call.op = <<"mark_as_read", FALSE>>) =>
               HasFlag(call.flags, UNREAD) /\ ~HasFlag(call.flags, SEEN)

\* a letter held twice is removed, after a mark_as_read that did not touch it
C40_Witness ==
    /\ call.pc = "flags"
    /\ call.op = <<"remove_flag2", TRASHED>>
    /\ Count(call.before, TRASHED) = 2
    /\ ~HasFlag(call.flags, TRASHED)
    /\ call.last[SEEN] = "added" /\ HasFlag(call.flags, SEEN)

\* C37: get_mails and get_mails2 return a record for every entry; the record
\* of an entry without a Date header or with one that is no date has the
\* date zero and the date_iso "????-??-??", and the sender shown for an
\* entry without a parsable From header is the raw header.
C37_AdapterBestEffort ==
    (call.pc = "done" /\ call.ret \in {"Ok", "Err"} /\ "entries" \in DOMAIN call) =>
        /\ call.ret = "Ok"
        /\ Len(call.mails) = Len(call.entries)
        /\ \A k \in 1..Len(call.mails) :
               /\ call.mails[k].id = call.entries[k].id
               /\ call.entries[k].date \in {Absent, Junk} =>
                      /\ call.mails[k].date = 0
                      /\ call.mails[k].date_iso = <<"????-??-??">>
               /\ call.entries[k].from \in {Absent, Junk} =>
                      EasyFrom(call.mails[k]) = HeaderText(call.entries[k].from)

====
